---- MODULE Spec2Model ----
(***************************************************************************)
(* Model of the OpenRewrite data-tables viewer: the CSV loader             *)
(* (DataLoader) and the metrics derivation engine (DataProcessor).         *)
(*                                                                         *)
(* Representation                                                          *)
(*  - A JavaScript string is a sequence of one-character strings, so that  *)
(*    trim, slice, includes, split and toLowerCase are computed character  *)
(*    by character.  null and undefined are the one-element sequences Null *)
(*    and Undefined, whose only element is not a character.                *)
(*  - A JavaScript number is an exact fraction [n, d] in lowest terms with *)
(*    d > 0; Infinity is 1/0, -Infinity is -1/0 and NaN is 0/0.  Rounding  *)
(*    of IEEE doubles is not modelled.                                     *)
(***************************************************************************)
EXTENDS Integers, Sequences, FiniteSets, TLC

\* ------------------------------------------------------------------------
\* Strings
\* ------------------------------------------------------------------------
Null == <<"<null>">>
Undefined == <<"<undefined>">>

Str_null == <<"n","u","l","l">>
Str_dot == "."

Str_migrate == <<"m","i","g","r","a","t","e">>
Str_OrderImports == <<"O","r","d","e","r","I","m","p","o","r","t","s">>
Str_StringFormatted == <<"S","t","r","i","n","g","F","o","r","m","a","t","t","e","d">>
Str_CompositeRecipe == <<"C","o","m","p","o","s","i","t","e","R","e","c","i","p","e">>
Str_security == <<"s","e","c","u","r","i","t","y">>
Str_junit == <<"j","u","n","i","t">>
Str_logging == <<"l","o","g","g","i","n","g">>

Str_Unknown == <<"U","n","k","n","o","w","n">>
Str_Other == <<"O","t","h","e","r">>
Str_Migration == <<"M","i","g","r","a","t","i","o","n">>
Str_ImportOrganization == <<"I","m","p","o","r","t"," ","O","r","g","a","n","i","z","a","t","i","o","n">>
Str_StringFormatting == <<"S","t","r","i","n","g"," ","F","o","r","m","a","t","t","i","n","g">>
Str_Composite == <<"C","o","m","p","o","s","i","t","e">>
Str_Security == <<"S","e","c","u","r","i","t","y">>
Str_Testing == <<"T","e","s","t","i","n","g">>
Str_Logging == <<"L","o","g","g","i","n","g">>

\* String.prototype.toLowerCase, one character at a time.
LowerOf ==
  [c \in {"A","B","C","D","E","F","G","H","I","J","K","L","M",
          "N","O","P","Q","R","S","T","U","V","W","X","Y","Z"} |->
     CASE c = "A" -> "a" [] c = "B" -> "b" [] c = "C" -> "c" [] c = "D" -> "d"
       [] c = "E" -> "e" [] c = "F" -> "f" [] c = "G" -> "g" [] c = "H" -> "h"
       [] c = "I" -> "i" [] c = "J" -> "j" [] c = "K" -> "k" [] c = "L" -> "l"
       [] c = "M" -> "m" [] c = "N" -> "n" [] c = "O" -> "o" [] c = "P" -> "p"
       [] c = "Q" -> "q" [] c = "R" -> "r" [] c = "S" -> "s" [] c = "T" -> "t"
       [] c = "U" -> "u" [] c = "V" -> "v" [] c = "W" -> "w" [] c = "X" -> "x"
       [] c = "Y" -> "y" [] c = "Z" -> "z"]

ToLowerCase(s) ==
  [i \in 1..Len(s) |-> IF s[i] \in DOMAIN LowerOf THEN LowerOf[s[i]] ELSE s[i]]

\* s.slice(from) / s.slice(from, to) with 1-based inclusive positions.
Slice(s, from, to) == SubSeq(s, from, to)

RECURSIVE TrimStart(_)
TrimStart(s) ==
  IF Len(s) > 0 /\ s[1] = " " THEN TrimStart(Tail(s)) ELSE s

RECURSIVE TrimEnd(_)
TrimEnd(s) ==
  IF Len(s) > 0 /\ s[Len(s)] = " " THEN TrimEnd(Slice(s, 1, Len(s) - 1)) ELSE s

\* String.prototype.trim
Trim(s) == TrimEnd(TrimStart(s))

StartsWith(s, c) == Len(s) > 0 /\ s[1] = c
EndsWith(s, c) == Len(s) > 0 /\ s[Len(s)] = c

\* String.prototype.includes: sub occurs in s as a contiguous substring.
Includes(s, sub) ==
  \E i \in 1..(Len(s) - Len(sub) + 1) : Slice(s, i, i + Len(sub) - 1) = sub

\* String.prototype.split('.'): the segments between the dots, empty
\* segments included; a string without a dot is its own single segment.
\* Position of the k-th dot of s, dots being the positions of all its dots;
\* 0 and Len(s) + 1 bracket the string.
DotAt(s, dots, k) ==
  IF k = 0 THEN 0
  ELSE IF k > Cardinality(dots) THEN Len(s) + 1
  ELSE CHOOSE i \in dots : Cardinality({j \in dots : j < i}) = k - 1

SplitAt(s, dots) ==
  [k \in 1..(Cardinality(dots) + 1) |->
     Slice(s, DotAt(s, dots, k - 1) + 1, DotAt(s, dots, k) - 1)]

Split(s) == SplitAt(s, {i \in 1..Len(s) : s[i] = Str_dot})

\* ------------------------------------------------------------------------
\* Numbers
\* ------------------------------------------------------------------------
Abs(x) == IF x < 0 THEN -x ELSE x

RECURSIVE GCD(_, _)
GCD(a, b) == IF b = 0 THEN a ELSE GCD(b, a % b)

Infinity == [n |-> 1, d |-> 0]
NegInfinity == [n |-> -1, d |-> 0]
NaN == [n |-> 0, d |-> 0]

IsNaN(x) == x.d = 0 /\ x.n = 0
IsFiniteNum(x) == x.d > 0

\* The fraction n/d (d > 0) in lowest terms.
Reduce(n, d, g) == [n |-> n \div g, d |-> d \div g]

Frac(n, d) == Reduce(n, d, GCD(Abs(n), d))

Num(k) == [n |-> k, d |-> 1]
Zero == Num(0)

\* a + b for finite a and b, l being a common multiple of their denominators
PlusOver(a, b, l) == Frac(a.n * (l \div a.d) + b.n * (l \div b.d), l)

\* a + b
Plus(a, b) ==
  IF IsNaN(a) \/ IsNaN(b) THEN NaN
  ELSE IF a.d = 0 /\ b.d = 0 THEN (IF a.n = b.n THEN a ELSE NaN)
  ELSE IF a.d = 0 THEN a
  ELSE IF b.d = 0 THEN b
  ELSE PlusOver(a, b, (a.d \div GCD(a.d, b.d)) * b.d)

Sign(k) == IF k > 0 THEN 1 ELSE IF k < 0 THEN -1 ELSE 0

\* a * b for finite a and b, g1 and g2 being the factors a.n shares with
\* b.d and b.n shares with a.d
TimesBy(a, b, g1, g2) ==
  [n |-> (a.n \div g1) * (b.n \div g2), d |-> (a.d \div g2) * (b.d \div g1)]

\* a * b
Times(a, b) ==
  IF IsNaN(a) \/ IsNaN(b) THEN NaN
  ELSE IF a.d = 0 \/ b.d = 0
    THEN [n |-> Sign(a.n) * Sign(b.n), d |-> 0]
  ELSE TimesBy(a, b, GCD(Abs(a.n), b.d), GCD(Abs(b.n), a.d))

\* a / b, with JavaScript's results for a zero or infinite divisor.
Over(a, b) ==
  IF IsNaN(a) \/ IsNaN(b) THEN NaN
  ELSE IF b.d = 0 THEN (IF a.d = 0 THEN NaN ELSE Zero)
  ELSE IF b.n = 0 THEN [n |-> Sign(a.n), d |-> 0]
  ELSE IF a.d = 0 THEN [n |-> Sign(a.n) * Sign(b.n), d |-> 0]
  ELSE Times(a, IF b.n > 0 THEN [n |-> b.d, d |-> b.n]
                           ELSE [n |-> -b.d, d |-> -b.n])

\* x > 0 (false for NaN, true for Infinity)
GtZero(x) == x.n > 0

\* Array.prototype.reduce((sum, v) => sum + v, 0) over a sequence of numbers
RECURSIVE SumSeq(_)
SumSeq(xs) == IF xs = <<>> THEN Zero ELSE Plus(SumSeq(Slice(xs, 1, Len(xs) - 1)), xs[Len(xs)])

\* ------------------------------------------------------------------------
\* DataLoader: cell parsing
\* ------------------------------------------------------------------------
Quote2 == "\""
Quote1 == "'"

Quoted(s) ==
  \/ StartsWith(s, Quote2) /\ EndsWith(s, Quote2)
  \/ StartsWith(s, Quote1) /\ EndsWith(s, Quote1)

\* parseString: '' for null/undefined, else the trimmed text with one pair
\* of enclosing quotes removed.
Unquote(str) == IF Quoted(str) THEN Slice(str, 2, Len(str) - 1) ELSE str

parseString(value) ==
  IF value = Null \/ value = Undefined THEN <<>> ELSE Unquote(Trim(value))

\* parseStringOrNull: null for '' and for any spelling of "null".
NullIfEmpty(parsed) ==
  IF parsed = <<>> \/ ToLowerCase(parsed) = Str_null THEN Null ELSE parsed

parseStringOrNull(value) == NullIfEmpty(parseString(value))

DigitVal ==
  [c \in {"0","1","2","3","4","5","6","7","8","9"} |->
     CASE c = "0" -> 0 [] c = "1" -> 1 [] c = "2" -> 2 [] c = "3" -> 3
       [] c = "4" -> 4 [] c = "5" -> 5 [] c = "6" -> 6 [] c = "7" -> 7
       [] c = "8" -> 8 [] c = "9" -> 9]

IsDigitAt(s, i) == i >= 1 /\ i <= Len(s) /\ s[i] \in DOMAIN DigitVal

\* Position of the last digit of the run of digits that starts at i
\* (i - 1 when s has no digit at i).
RECURSIVE RunEnd(_, _)
RunEnd(s, i) == IF IsDigitAt(s, i) THEN RunEnd(s, i + 1) ELSE i - 1

\* Value of the digits s[from..to] (0 for an empty range).
RECURSIVE DigitsValue(_, _, _)
DigitsValue(s, from, to) ==
  IF to < from THEN 0 ELSE DigitsValue(s, from, to - 1) * 10 + DigitVal[s[to]]

RECURSIVE Pow10(_)
Pow10(k) == IF k = 0 THEN 1 ELSE 10 * Pow10(k - 1)

\* The value sgn * mant * 10^p
Scaled(sgn, mant, p) ==
  IF p >= 0 THEN Num(sgn * mant * Pow10(p)) ELSE Frac(sgn * mant, Pow10(-p))

\* The digits s[i0..ie] are the integer part, s[ie+2..fe] the fraction
\* (fe <= ie + 1 when there is none), expo the exponent.
FloatValue(s, sgn, i0, ie, fe, nFrac, expo) ==
  IF ie < i0 /\ nFrac = 0 THEN NaN
  ELSE Scaled(sgn,
              DigitsValue(s, i0, ie) * Pow10(nFrac)
                + (IF nFrac > 0 THEN DigitsValue(s, ie + 2, fe) ELSE 0),
              expo - nFrac)

\* The exponent digits are s[e0..ee], negative when neg; none when ee < e0.
FloatExponent(s, sgn, i0, ie, fe, neg, e0, ee) ==
  FloatValue(s, sgn, i0, ie, fe,
             IF fe > ie THEN fe - ie - 1 ELSE 0,
             IF ee < e0 THEN 0
             ELSE IF neg THEN -DigitsValue(s, e0, ee) ELSE DigitsValue(s, e0, ee))

\* After the mantissa s[i0..fe]: an optional e or E, an optional sign and
\* the exponent digits that start at e0.
FloatAfterSign(s, sgn, i0, ie, fe, neg, e0) ==
  FloatExponent(s, sgn, i0, ie, fe, neg, e0, RunEnd(s, e0))

FloatAfterMantissa(s, sgn, i0, ie, fe) ==
  IF fe + 1 <= Len(s) /\ s[fe + 1] \in {"e", "E"}
    THEN IF fe + 2 <= Len(s) /\ s[fe + 2] \in {"+", "-"}
           THEN FloatAfterSign(s, sgn, i0, ie, fe, s[fe + 2] = "-", fe + 3)
           ELSE FloatAfterSign(s, sgn, i0, ie, fe, FALSE, fe + 2)
    ELSE FloatExponent(s, sgn, i0, ie, fe, FALSE, 1, 0)

\* After the integer digits s[i0..ie]: an optional dot and fraction digits.
FloatAfterInteger(s, sgn, i0, ie) ==
  IF ie + 1 <= Len(s) /\ s[ie + 1] = "."
    THEN FloatAfterMantissa(s, sgn, i0, ie, RunEnd(s, ie + 2))
    ELSE FloatAfterMantissa(s, sgn, i0, ie, ie)

FloatFrom(s, sgn, i0) == FloatAfterInteger(s, sgn, i0, RunEnd(s, i0))

\* parseFloat on text without leading whitespace: the longest prefix of the
\* form [+-] digits [. digits] [e [+-] digits]; NaN when the mantissa holds
\* no digit.  (The literal "Infinity" is not recognised by this model.)
parseFloat(s) ==
  IF Len(s) > 0 /\ s[1] \in {"+", "-"}
    THEN FloatFrom(s, IF s[1] = "-" THEN -1 ELSE 1, 2)
    ELSE FloatFrom(s, 1, 1)

ZeroIfNaN(parsed) == IF IsNaN(parsed) THEN Zero ELSE parsed

\* The text of a number cell once trimmed and unquoted
NumberOfText(str) ==
  IF str = <<>> \/ ToLowerCase(str) = Str_null THEN Zero
  ELSE ZeroIfNaN(parseFloat(str))

UnquoteTrimmed(t) == IF Quoted(t) THEN Trim(Slice(t, 2, Len(t) - 1)) ELSE t

\* parseNumber: 0 for a missing, empty, "null" or unparsable cell.
parseNumber(value) ==
  IF value = Null \/ value = Undefined \/ value = <<>> THEN Zero
  ELSE NumberOfText(UnquoteTrimmed(Trim(value)))

Key_RecipeWhoseStats == <<"T","h","e"," ","r","e","c","i","p","e"," ","w","h","o","s","e"," ","s","t","a","t","s"," ","a","r","e"," ","b","e","i","n","g"," ","m","e","a","s","u","r","e","d">>
Key_SourcePathBefore == <<"T","h","e"," ","s","o","u","r","c","e"," ","p","a","t","h"," ","o","f"," ","t","h","e"," ","f","i","l","e"," ","b","e","f","o","r","e"," ","t","h","e"," ","r","u","n">>
Key_MeasuredBoth == <<"m","e","a","s","u","r","e","d"," ","b","o","t","h"," ","i","n","d","i","v","i","d","u","a","l","l","y">>
Key_NullWhen == <<"n","u","l","l"," ","w","h","e","n">>

descriptionKeywords ==
  {Key_RecipeWhoseStats, Key_SourcePathBefore, Key_MeasuredBoth, Key_NullWhen}

\* isDescriptionRow: the value of the row's first column contains one of the
\* description phrases, compared case-insensitively.  firstValue is
\* Object.values(row)[0]; Undefined stands for a missing row.
isDescriptionRow(firstValue) ==
  IF firstValue = Undefined \/ firstValue = Null \/ firstValue = <<>> THEN FALSE
  ELSE \E keyword \in descriptionKeywords :
         Includes(ToLowerCase(firstValue), ToLowerCase(keyword))

\* csvData.filter((_, index) => index > 0 || !isDescriptionRow(csvData[0]))
dataRows(csvData, firstColumn) ==
  IF Len(csvData) > 0 /\ isDescriptionRow(csvData[1][firstColumn])
    THEN Tail(csvData) ELSE csvData

\* item.recipe && item.recipe.trim() !== ''
NonBlank(s) == s # <<>> /\ Trim(s) # <<>>

\* The rows -> records mapping of loadRecipeRunStats
recipeRecords(rows) ==
  [i \in 1..Len(rows) |->
     [recipe                   |-> parseString(rows[i]["The recipe"]),
      sourceFileCount          |-> parseNumber(rows[i]["Source file count"]),
      sourceFileChangedCount   |-> parseNumber(rows[i]["Source file changed count"]),
      cumulativeScanningTime   |-> parseNumber(rows[i]["Cumulative scanning time (ns)"]),
      percentile99ScanningTime |-> parseNumber(rows[i]["99th percentile scanning time (ns)"]),
      maxScanningTime          |-> parseNumber(rows[i]["Max scanning time (ns)"]),
      cumulativeEditTime       |-> parseNumber(rows[i]["Cumulative edit time (ns)"]),
      percentile99EditTime     |-> parseNumber(rows[i]["99th percentile edit time (ns)"]),
      maxEditTime              |-> parseNumber(rows[i]["Max edit time (ns)"])]]

\* the filter keeping every record whose name is not the empty string
hasRecipe_NotTrimmed(item) == item.recipe # <<>>

\* item.recipe && item.recipe.trim() !== ''
hasRecipe(item) == NonBlank(item.recipe)

\* loadRecipeRunStats on the parsed CSV rows: the description row skipped,
\* the rows mapped, the records without a recipe name dropped.
parseRecipeRunStats(csvData) ==
  SelectSeq(recipeRecords(dataRows(csvData, "The recipe")), hasRecipe)

\* The rows -> records mapping of loadSourceFileResults
sourceRecords(rows) ==
  [i \in 1..Len(rows) |->
     [sourcePathBefore    |-> parseStringOrNull(rows[i]["Source path before the run"]),
      sourcePathAfter     |-> parseStringOrNull(rows[i]["Source path after the run"]),
      recipeChanges       |-> parseString(rows[i]["Recipe that made changes"]),
      estimatedTimeSaving |-> parseNumber(rows[i]["Estimated time saving"]),
      cycle               |-> parseNumber(rows[i]["Cycle"])]]

\* value || '' on a string | null value
OrEmpty(value) == IF value = Null \/ value = Undefined THEN <<>> ELSE value

hasRecipeChanges(item) == NonBlank(item.recipeChanges)

\* loadSourceFileResults on the parsed CSV rows: the description row
\* skipped, the rows mapped, the records without a recipe name dropped.
parseSourceFileResults(csvData) ==
  SelectSeq(sourceRecords(dataRows(csvData, "Source path before the run")),
            hasRecipeChanges)

\* String.prototype.toUpperCase, one character at a time.
UpperOf ==
  [c \in {LowerOf[u] : u \in DOMAIN LowerOf} |->
     CHOOSE u \in DOMAIN LowerOf : LowerOf[u] = c]

ToUpperCase(s) ==
  [i \in 1..Len(s) |-> IF s[i] \in DOMAIN UpperOf THEN UpperOf[s[i]] ELSE s[i]]

Str_COMPLETED == <<"C","O","M","P","L","E","T","E","D">>

\* The rows -> records mapping of loadUsageReport, on the columns its filter
\* reads and one of its numeric columns; the other columns are mapped by
\* the same parseString, parseNumber and parseStringOrNull calls.
usageRecords(rows) ==
  [i \in 1..Len(rows) |->
     [runId                |-> parseString(rows[i]["runId"]),
      recipeId             |-> parseString(rows[i]["recipeId"]),
      timeSavingsInMinutes |-> parseNumber(rows[i]["timeSavingsInMinutes"]),
      commitState          |-> parseStringOrNull(rows[i]["commitState"])]]

\* The filter of loadUsageReport: a run id, a recipe id and the commit state
\* COMPLETED
isCompleted(item) ==
  /\ item.runId # <<>>
  /\ item.recipeId # <<>>
  /\ ToUpperCase(Trim(OrEmpty(item.commitState))) = Str_COMPLETED

\* loadUsageReport on the parsed CSV rows: the rows mapped, the runs that
\* are not completed dropped.
parseUsageReport(csvData) == SelectSeq(usageRecords(csvData), isCompleted)

\* ------------------------------------------------------------------------
\* DataProcessor: global ROI metrics
\* ------------------------------------------------------------------------
NS_PER_MS == 1000000
MS_PER_S == 1000
PERCENT == 100

\* JavaScript truthiness of a string | null value
Truthy(s) == s # Null /\ s # Undefined /\ s # <<>>

\* a || b on string | null values
OrElse(a, b) == IF Truthy(a) THEN a ELSE b

\* sourceResults.reduce((sum, result) => sum + result.estimatedTimeSaving, 0)
totalTimeSavedOf(sourceResults) ==
  SumSeq([i \in 1..Len(sourceResults) |-> sourceResults[i].estimatedTimeSaving])

\* The execution time in seconds of one record: ns -> ms, then ms -> s.
executionSeconds(stats) ==
  Over(Plus(Over(stats.cumulativeScanningTime, Num(NS_PER_MS)),
            Over(stats.cumulativeEditTime, Num(NS_PER_MS))),
       Num(MS_PER_S))

totalExecutionTimeOf(recipeStats) ==
  SumSeq([i \in 1..Len(recipeStats) |-> executionSeconds(recipeStats[i])])

\* roiOf without the guard on the divisor
roiOf_Unguarded(totalTimeSaved, totalExecutionTime) ==
  Times(Over(totalTimeSaved, totalExecutionTime), Num(PERCENT))

\* totalExecutionTime > 0 ? (totalTimeSaved / totalExecutionTime) * 100 : 0
roiOf(totalTimeSaved, totalExecutionTime) ==
  IF GtZero(totalExecutionTime)
    THEN Times(Over(totalTimeSaved, totalExecutionTime), Num(PERCENT))
    ELSE Zero

totalFilesProcessedOf(recipeStats) ==
  SumSeq([i \in 1..Len(recipeStats) |-> recipeStats[i].sourceFileCount])

\* uniqueFilesChangedOf looking at sourcePathAfter only
uniqueFilesChangedOf_AfterOnly(sourceResults) ==
  Cardinality({sourceResults[i].sourcePathAfter :
     i \in {j \in 1..Len(sourceResults) : Truthy(sourceResults[j].sourcePathAfter)}})

\* new Set(sourceResults.filter(after || before).map(after || before)).size
uniqueFilesChangedOf(sourceResults) ==
  Cardinality({OrElse(sourceResults[i].sourcePathAfter, sourceResults[i].sourcePathBefore) :
     i \in {j \in 1..Len(sourceResults) :
              Truthy(OrElse(sourceResults[j].sourcePathAfter,
                            sourceResults[j].sourcePathBefore))}})

\* totalFilesProcessed > 0 ? (uniqueFilesChanged / totalFilesProcessed) * 100 : 0
efficiencyOf(uniqueFilesChanged, totalFilesProcessed) ==
  IF GtZero(totalFilesProcessed)
    THEN Times(Over(Num(uniqueFilesChanged), totalFilesProcessed), Num(PERCENT))
    ELSE Zero

\* impactPerFileOf without the guard on the divisor
impactPerFileOf_Unguarded(totalTimeSaved, uniqueFilesChanged) ==
  Over(totalTimeSaved, Num(uniqueFilesChanged))

\* uniqueFilesChanged > 0 ? totalTimeSaved / uniqueFilesChanged : 0
impactPerFileOf(totalTimeSaved, uniqueFilesChanged) ==
  IF uniqueFilesChanged > 0
    THEN Over(totalTimeSaved, Num(uniqueFilesChanged))
    ELSE Zero

\* The object calculateROIMetrics returns, from the four totals
roiMetricsOf(totalTimeSaved, totalExecutionTime, totalFilesProcessed, uniqueFilesChanged) ==
  [totalTimeSaved      |-> totalTimeSaved,
   totalExecutionTime  |-> totalExecutionTime,
   roi                 |-> roiOf(totalTimeSaved, totalExecutionTime),
   efficiency          |-> efficiencyOf(uniqueFilesChanged, totalFilesProcessed),
   impactPerFile       |-> impactPerFileOf(totalTimeSaved, uniqueFilesChanged),
   totalFilesProcessed |-> totalFilesProcessed,
   totalFilesChanged   |-> uniqueFilesChanged]

calculateROIMetrics(rs, sr) ==
  roiMetricsOf(totalTimeSavedOf(sr), totalExecutionTimeOf(rs),
               totalFilesProcessedOf(rs), uniqueFilesChangedOf(sr))

\* ------------------------------------------------------------------------
\* DataProcessor: per-recipe enrichment
\* ------------------------------------------------------------------------
\* (scan + edit) / 1_000_000
totalExecutionTimeMsOf(stats) ==
  Over(Plus(stats.cumulativeScanningTime, stats.cumulativeEditTime), Num(NS_PER_MS))

\* scanEditRatioOf with a two-way branch: 0 whenever the edit time is 0
scanEditRatioOf_TwoWay(stats) ==
  IF GtZero(stats.cumulativeEditTime)
    THEN Over(stats.cumulativeScanningTime, stats.cumulativeEditTime)
    ELSE Zero

\* edit > 0 ? scan / edit : scan > 0 ? Infinity : 0
scanEditRatioOf(stats) ==
  IF GtZero(stats.cumulativeEditTime)
    THEN Over(stats.cumulativeScanningTime, stats.cumulativeEditTime)
    ELSE IF GtZero(stats.cumulativeScanningTime) THEN Infinity ELSE Zero

\* sourceFileCount > 0 ? (changed / count) * 100 : 0
changeEfficiencyOf(stats) ==
  IF GtZero(stats.sourceFileCount)
    THEN Times(Over(stats.sourceFileChangedCount, stats.sourceFileCount), Num(PERCENT))
    ELSE Zero

\* recipeTimeSavedOf without the filter on the recipe name
recipeTimeSavedOf_NoFilter(stats, sourceResults) ==
  SumSeq([i \in 1..Len(sourceResults) |-> sourceResults[i].estimatedTimeSaving])

\* reduce((sum, r) => sum + r.estimatedTimeSaving, 0) over the matching results
savingsOf(matching) ==
  SumSeq([i \in 1..Len(matching) |-> matching[i].estimatedTimeSaving])

\* sourceResults.filter(recipeChanges === recipe).reduce(sum of savings)
recipeTimeSavedOf(stats, sourceResults) ==
  LET Match(result) == result.recipeChanges = stats.recipe
  IN savingsOf(SelectSeq(sourceResults, Match))

\* recipeROIOf dividing by the milliseconds instead of the seconds
recipeROIOf_Milliseconds(totalTimeSaved, totalExecutionTimeMs) ==
  IF GtZero(totalExecutionTimeMs)
    THEN Times(Over(totalTimeSaved, totalExecutionTimeMs), Num(PERCENT))
    ELSE Zero

\* executionTimeSec > 0 ? (totalTimeSaved / executionTimeSec) * 100 : 0
roiPerSecond(totalTimeSaved, executionTimeSec) ==
  IF GtZero(executionTimeSec)
    THEN Times(Over(totalTimeSaved, executionTimeSec), Num(PERCENT))
    ELSE Zero

\* recipeROI, with executionTimeSec = totalExecutionTimeMs / 1000
recipeROIOf(totalTimeSaved, totalExecutionTimeMs) ==
  roiPerSecond(totalTimeSaved, Over(totalExecutionTimeMs, Num(MS_PER_S)))

\* { ...stats, <computed fields> }
enrichedRecord(stats, totalExecutionTimeMs, totalTimeSaved) ==
  [totalExecutionTimeMs |-> totalExecutionTimeMs,
   scanEditRatio        |-> scanEditRatioOf(stats),
   changeEfficiency     |-> changeEfficiencyOf(stats),
   totalTimeSaved       |-> totalTimeSaved,
   recipeROI            |-> recipeROIOf(totalTimeSaved, totalExecutionTimeMs)]
  @@ stats

\* The callback of recipeStats.map
enrichOne(stats, sourceResults) ==
  enrichedRecord(stats, totalExecutionTimeMsOf(stats),
                 recipeTimeSavedOf(stats, sourceResults))

\* enrichRecipeStats keeping one output per recipe name (the first record)
enrichRecipeStats_PerName(rs, sr) ==
  LET firsts == {i \in 1..Len(rs) : \A h \in 1..(i - 1) : rs[h].recipe # rs[i].recipe}
      nth(k) == CHOOSE i \in firsts : Cardinality({h \in firsts : h < i}) = k - 1
  IN [k \in 1..Cardinality(firsts) |-> enrichOne(rs[nth(k)], sr)]

enrichRecipeStats(rs, sr) ==
  [i \in 1..Len(rs) |-> enrichOne(rs[i], sr)]

\* ------------------------------------------------------------------------
\* DataProcessor: change-type classification and aggregation
\* ------------------------------------------------------------------------
\* extractChangeType with the package fallback tried before the substring
\* tests
extractChangeType_FallbackFirst(recipeName) ==
  IF ~Truthy(recipeName) THEN Str_Unknown
  ELSE LET parts == Split(recipeName)
       IN IF Len(parts) > 2 /\ Truthy(parts[Len(parts) - 1]) THEN parts[Len(parts) - 1]
          ELSE IF Includes(recipeName, Str_migrate) THEN Str_Migration
          ELSE IF Includes(recipeName, Str_OrderImports) THEN Str_ImportOrganization
          ELSE IF Includes(recipeName, Str_StringFormatted) THEN Str_StringFormatting
          ELSE IF Includes(recipeName, Str_CompositeRecipe) THEN Str_Composite
          ELSE IF Includes(recipeName, Str_security) THEN Str_Security
          ELSE IF Includes(recipeName, Str_junit) THEN Str_Testing
          ELSE IF Includes(recipeName, Str_logging) THEN Str_Logging
          ELSE Str_Other

\* extractChangeType returning the second-to-last segment even when empty
extractChangeType_NoOther(recipeName) ==
  IF ~Truthy(recipeName) THEN Str_Unknown
  ELSE IF Includes(recipeName, Str_migrate) THEN Str_Migration
  ELSE IF Includes(recipeName, Str_OrderImports) THEN Str_ImportOrganization
  ELSE IF Includes(recipeName, Str_StringFormatted) THEN Str_StringFormatting
  ELSE IF Includes(recipeName, Str_CompositeRecipe) THEN Str_Composite
  ELSE IF Includes(recipeName, Str_security) THEN Str_Security
  ELSE IF Includes(recipeName, Str_junit) THEN Str_Testing
  ELSE IF Includes(recipeName, Str_logging) THEN Str_Logging
  ELSE LET parts == Split(recipeName)
       IN IF Len(parts) > 2 THEN parts[Len(parts) - 1] ELSE Str_Other

\* parts.length > 2 ? parts[parts.length - 2] || 'Other' : 'Other'
packageOf(parts) ==
  IF Len(parts) > 2 THEN OrElse(parts[Len(parts) - 1], Str_Other) ELSE Str_Other

extractChangeType(recipeName) ==
  IF ~Truthy(recipeName) THEN Str_Unknown
  ELSE IF Includes(recipeName, Str_migrate) THEN Str_Migration
  ELSE IF Includes(recipeName, Str_OrderImports) THEN Str_ImportOrganization
  ELSE IF Includes(recipeName, Str_StringFormatted) THEN Str_StringFormatting
  ELSE IF Includes(recipeName, Str_CompositeRecipe) THEN Str_Composite
  ELSE IF Includes(recipeName, Str_security) THEN Str_Security
  ELSE IF Includes(recipeName, Str_junit) THEN Str_Testing
  ELSE IF Includes(recipeName, Str_logging) THEN Str_Logging
  ELSE packageOf(Split(recipeName))

\* Position of the bucket of changeType in the insertion-ordered map
\* (0 when the map has no such key).
bucketIndex(aggregationMap, changeType) ==
  IF \E i \in 1..Len(aggregationMap) : aggregationMap[i].changeType = changeType
    THEN CHOOSE i \in 1..Len(aggregationMap) : aggregationMap[i].changeType = changeType
    ELSE 0

\* Set.prototype.add on an insertion-ordered set
setAdd(items, x) ==
  IF \E i \in 1..Len(items) : items[i] = x THEN items ELSE Append(items, x)

\* The bucket aggregationMap.set(changeType, ...) creates
emptyBucket(changeType) ==
  [changeType |-> changeType, filesAffected |-> <<>>,
   timeSaved |-> Zero, executionTime |-> Zero, recipes |-> <<>>]

\* if (!aggregationMap.has(changeType)) aggregationMap.set(changeType, ...)
withBucket(aggregationMap, changeType) ==
  IF bucketIndex(aggregationMap, changeType) = 0
    THEN Append(aggregationMap, emptyBucket(changeType))
    ELSE aggregationMap

\* bucketWithResult counting a file under its path before the run when it
\* has no path after the run
bucketWithResult_AnyPath(agg, result) ==
  [changeType    |-> agg.changeType,
   filesAffected |-> IF Truthy(OrElse(result.sourcePathAfter, result.sourcePathBefore))
                       THEN setAdd(agg.filesAffected,
                                   OrElse(result.sourcePathAfter, result.sourcePathBefore))
                       ELSE agg.filesAffected,
   timeSaved     |-> Plus(agg.timeSaved, result.estimatedTimeSaving),
   executionTime |-> agg.executionTime,
   recipes       |-> setAdd(agg.recipes, result.recipeChanges)]

\* The updates of one source result on its bucket agg
bucketWithResult(agg, result) ==
  [changeType    |-> agg.changeType,
   filesAffected |-> IF Truthy(result.sourcePathAfter)
                       THEN setAdd(agg.filesAffected, result.sourcePathAfter)
                       ELSE agg.filesAffected,
   timeSaved     |-> Plus(agg.timeSaved, result.estimatedTimeSaving),
   executionTime |-> agg.executionTime,
   recipes       |-> setAdd(agg.recipes, result.recipeChanges)]

\* addToBucket starting from an empty bucket at every record
addToBucket_Overwriting(aggregationMap, changeType, result) ==
  [aggregationMap EXCEPT ![bucketIndex(aggregationMap, changeType)] =
     bucketWithResult(emptyBucket(changeType), result)]

\* const agg = aggregationMap.get(changeType)!, then the updates
addToBucket(aggregationMap, changeType, result) ==
  [aggregationMap EXCEPT ![bucketIndex(aggregationMap, changeType)] =
     bucketWithResult(@, result)]

addSourceResultAs(aggregationMap, result, changeType) ==
  addToBucket(withBucket(aggregationMap, changeType), changeType, result)

\* One iteration of sourceResults.forEach: create the bucket when it is
\* missing, then add the file, the saving and the recipe name.
addSourceResult(aggregationMap, result) ==
  addSourceResultAs(aggregationMap, result, extractChangeType(result.recipeChanges))

\* agg.executionTime += (scan + edit) / 1_000_000 on the k-th bucket
addExecutionTime(aggregationMap, k, stats) ==
  [aggregationMap EXCEPT ![k].executionTime =
     Plus(@, Over(Plus(stats.cumulativeScanningTime, stats.cumulativeEditTime),
                  Num(NS_PER_MS)))]

\* if (agg) agg.executionTime += ..., k = 0 standing for a missing bucket
addExecutionTimeIfPresent(aggregationMap, k, stats) ==
  IF k # 0 THEN addExecutionTime(aggregationMap, k, stats) ELSE aggregationMap

\* addRecipeStats creating the bucket of the recipe when it is missing
addRecipeStats_Creating(aggregationMap, stats) ==
  addExecutionTime(withBucket(aggregationMap, extractChangeType(stats.recipe)),
                   bucketIndex(withBucket(aggregationMap, extractChangeType(stats.recipe)),
                               extractChangeType(stats.recipe)),
                   stats)

\* One iteration of recipeStats.forEach: add the execution time in ms to
\* the bucket of the recipe's change type when that bucket exists.
addRecipeStats(aggregationMap, stats) ==
  addExecutionTimeIfPresent(aggregationMap,
                            bucketIndex(aggregationMap, extractChangeType(stats.recipe)),
                            stats)

RECURSIVE sourcePass(_, _)
sourcePass(sr, n) ==
  IF n = 0 THEN <<>> ELSE addSourceResult(sourcePass(sr, n - 1), sr[n])

RECURSIVE recipePass(_, _, _)
recipePass(aggregationMap, rs, n) ==
  IF n = 0 THEN aggregationMap
  ELSE addRecipeStats(recipePass(aggregationMap, rs, n - 1), rs[n])

\* Array.from(aggregationMap.values()).map(agg => ({ ...,
\* filesAffected: agg.filesAffected.size, ... }))
bucketsOf(aggregationMap) ==
  [i \in 1..Len(aggregationMap) |->
     [changeType    |-> aggregationMap[i].changeType,
      filesAffected |-> Len(aggregationMap[i].filesAffected),
      timeSaved     |-> aggregationMap[i].timeSaved,
      executionTime |-> aggregationMap[i].executionTime,
      recipes       |-> aggregationMap[i].recipes]]

aggregateByChangeType(rs, sr) ==
  bucketsOf(recipePass(sourcePass(sr, Len(sr)), rs, Len(rs)))

\* ------------------------------------------------------------------------
\* DataProcessor: recipe hierarchy
\* ------------------------------------------------------------------------
\* { name, parent: null, children: [], metrics: stats, depth: 0 }
hierarchyNode(stats) ==
  [name |-> stats.recipe, parent |-> Null, children |-> <<>>,
   metrics |-> stats, depth |-> 0]

\* Position of the node of name in the insertion-ordered map (0 when the
\* map has no such key).
nodeIndex(hierarchyMap, name) ==
  IF \E i \in 1..Len(hierarchyMap) : hierarchyMap[i].name = name
    THEN CHOOSE i \in 1..Len(hierarchyMap) : hierarchyMap[i].name = name
    ELSE 0

\* Map.prototype.set: a new key is appended, an existing key keeps its
\* position and gets the new value; k is the position of the key.
hierarchySetAt(hierarchyMap, k, node) ==
  IF k = 0 THEN Append(hierarchyMap, node) ELSE [hierarchyMap EXCEPT ![k] = node]

\* hierarchySet appending a node for every record
hierarchySet_Appending(hierarchyMap, node) == Append(hierarchyMap, node)

\* hierarchyMap.set(stats.recipe, node)
hierarchySet(hierarchyMap, node) ==
  hierarchySetAt(hierarchyMap, nodeIndex(hierarchyMap, node.name), node)

\* enrichedStats.forEach(stats => hierarchyMap.set(...)) over the first n
RECURSIVE hierarchyPass(_, _)
hierarchyPass(enrichedStats, n) ==
  IF n = 0 THEN <<>>
  ELSE hierarchySet(hierarchyPass(enrichedStats, n - 1), hierarchyNode(enrichedStats[n]))

\* Array.from(hierarchyMap.values())
hierarchyOf(enrichedStats) == hierarchyPass(enrichedStats, Len(enrichedStats))

buildRecipeHierarchy(rs, sr) == hierarchyOf(enrichRecipeStats(rs, sr))

\* ------------------------------------------------------------------------
\* DataProcessor: time series
\* ------------------------------------------------------------------------
\* -a
Neg(a) == [n |-> -a.n, d |-> a.d]

\* a - b
Minus(a, b) == Plus(a, Neg(b))

\* The comparator (a, b) => a - b puts a before b: a - b < 0.  A NaN
\* difference counts as 0.
Before(a, b) == Minus(a, b).n < 0

\* Position of the entry of cycle in the insertion-ordered map (0 when the
\* map has no such key).
cycleIndex(cycleMap, cycle) ==
  IF \E i \in 1..Len(cycleMap) : cycleMap[i].cycle = cycle
    THEN CHOOSE i \in 1..Len(cycleMap) : cycleMap[i].cycle = cycle
    ELSE 0

\* if (!cycleMap.has(result.cycle)) cycleMap.set(result.cycle, ...)
withCycle(cycleMap, cycle) ==
  IF cycleIndex(cycleMap, cycle) = 0
    THEN Append(cycleMap, [cycle |-> cycle, timeSaved |-> Zero,
                           files |-> <<>>, recipes |-> <<>>])
    ELSE cycleMap

\* The updates of one source result on the entry of its cycle
cycleWithResult(entry, result) ==
  [cycle     |-> entry.cycle,
   timeSaved |-> Plus(entry.timeSaved, result.estimatedTimeSaving),
   files     |-> IF Truthy(result.sourcePathAfter)
                   THEN setAdd(entry.files, result.sourcePathAfter)
                   ELSE entry.files,
   recipes   |-> setAdd(entry.recipes, result.recipeChanges)]

\* const cycle = cycleMap.get(result.cycle)!, then the updates
addToCycle(cycleMap, result) ==
  [cycleMap EXCEPT ![cycleIndex(cycleMap, result.cycle)] = cycleWithResult(@, result)]

\* One iteration of sourceResults.forEach
addCycleResult(cycleMap, result) ==
  addToCycle(withCycle(cycleMap, result.cycle), result)

RECURSIVE cyclePass(_, _)
cyclePass(sr, n) ==
  IF n = 0 THEN <<>> ELSE addCycleResult(cyclePass(sr, n - 1), sr[n])

\* One step of the sort by cycle: entry goes after the entries that do not
\* come after it.
RECURSIVE insertByCycle(_, _)
insertByCycle(sorted, entry) ==
  IF sorted = <<>> THEN <<entry>>
  ELSE IF Before(entry.cycle, sorted[Len(sorted)].cycle)
    THEN Append(insertByCycle(Slice(sorted, 1, Len(sorted) - 1), entry), sorted[Len(sorted)])
    ELSE Append(sorted, entry)

\* Array.from(cycleMap.entries()).sort(([a], [b]) => a - b)
RECURSIVE sortByCycle(_, _)
sortByCycle(entries, n) ==
  IF n = 0 THEN <<>> ELSE insertByCycle(sortByCycle(entries, n - 1), entries[n])

\* The output entry carrying the cycle's own time saved, not the running total
cumulativeEntry_PerCycle(done, cycle) ==
  [cycle               |-> cycle.cycle,
   cumulativeTimeSaved |-> cycle.timeSaved,
   filesChanged        |-> Len(cycle.files),
   recipes             |-> cycle.recipes]

\* The output entry of one cycle, after the entries in done
cumulativeEntry(done, cycle) ==
  [cycle               |-> cycle.cycle,
   cumulativeTimeSaved |-> Plus(IF done = <<>> THEN Zero
                                ELSE done[Len(done)].cumulativeTimeSaved,
                                cycle.timeSaved),
   filesChanged        |-> Len(cycle.files),
   recipes             |-> cycle.recipes]

appendCumulative(done, cycle) == Append(done, cumulativeEntry(done, cycle))

\* let cumulativeTimeSaved = 0; cycles.map(cycle => { cumulativeTimeSaved +=
\* cycle.timeSaved; ... }) over the first n cycles
RECURSIVE cumulativePass(_, _)
cumulativePass(cycles, n) ==
  IF n = 0 THEN <<>> ELSE appendCumulative(cumulativePass(cycles, n - 1), cycles[n])

cumulativeOf(cycles) == cumulativePass(cycles, Len(cycles))

sortedCycles(cycleMap) == sortByCycle(cycleMap, Len(cycleMap))

calculateTimeSeries(sr) == cumulativeOf(sortedCycles(cyclePass(sr, Len(sr))))

\* ------------------------------------------------------------------------
\* DataProcessor: distribution statistics
\* ------------------------------------------------------------------------
\* x || 0 on a number: 0 for 0 and NaN
OrZero(x) == IF IsNaN(x) \/ x.n = 0 THEN Zero ELSE x

\* arr[i] || 0 with the 0-based index i: 0 also when i is out of range
ElementOrZero(arr, i) ==
  IF i + 1 \in DOMAIN arr THEN OrZero(arr[i + 1]) ELSE Zero

\* The largest r with r * r <= k, searched upwards from r
RECURSIVE IsqrtFrom(_, _)
IsqrtFrom(k, r) == IF (r + 1) * (r + 1) > k THEN r ELSE IsqrtFrom(k, r + 1)

\* The root of the finite x >= 0 given the integer roots of its numerator
\* and denominator: the exact fraction when x is a square, else the symbolic
\* irrational [sqrt |-> x].
RootOf(x, rn, rd) ==
  IF rn * rn = x.n /\ rd * rd = x.d THEN [n |-> rn, d |-> rd] ELSE [sqrt |-> x]

\* Math.sqrt
Sqrt(x) ==
  IF IsNaN(x) \/ x.n < 0 THEN NaN
  ELSE IF x.d = 0 THEN Infinity
  ELSE RootOf(x, IsqrtFrom(x.n, 0), IsqrtFrom(x.d, 0))

\* One step of the sort: x goes after the elements that do not come after it.
RECURSIVE insertAscending(_, _)
insertAscending(sorted, x) ==
  IF sorted = <<>> THEN <<x>>
  ELSE IF Before(x, sorted[Len(sorted)])
    THEN Append(insertAscending(Slice(sorted, 1, Len(sorted) - 1), x), sorted[Len(sorted)])
    ELSE Append(sorted, x)

RECURSIVE sortFirst(_, _)
sortFirst(values, n) ==
  IF n = 0 THEN <<>> ELSE insertAscending(sortFirst(values, n - 1), values[n])

\* [...values].sort((a, b) => a - b)
sortedCopy(values) == sortFirst(values, Len(values))

\* values.reduce((sum, val) => sum + val, 0) / values.length
meanOf(values) == Over(SumSeq(values), Num(Len(values)))

\* The median of the sorted copy
medianOf(sorted) ==
  IF Len(sorted) % 2 = 0
    THEN Over(Plus(ElementOrZero(sorted, Len(sorted) \div 2 - 1),
                   ElementOrZero(sorted, Len(sorted) \div 2)),
              Num(2))
    ELSE ElementOrZero(sorted, Len(sorted) \div 2)

\* Math.pow(val - mean, 2)
squaredDeviation(val, mean) == Times(Minus(val, mean), Minus(val, mean))

\* varianceOf dividing by N - 1
varianceOf_Sample(values, mean) ==
  Over(SumSeq([i \in 1..Len(values) |-> squaredDeviation(values[i], mean)]),
       Num(Len(values) - 1))

\* values.reduce((sum, val) => sum + Math.pow(val - mean, 2), 0) / values.length
varianceOf(values, mean) ==
  Over(SumSeq([i \in 1..Len(values) |-> squaredDeviation(values[i], mean)]),
       Num(Len(values)))

P95_PERCENT == 95

\* Math.floor(sorted.length * 0.95)
percentile95Index(length) == (length * P95_PERCENT) \div PERCENT

\* The object calculateDistributionStats returns for a non-empty array
distributionOf(values, sorted, mean) ==
  [mean         |-> mean,
   median       |-> medianOf(sorted),
   min          |-> ElementOrZero(sorted, 0),
   max          |-> ElementOrZero(sorted, Len(sorted) - 1),
   stdDev       |-> Sqrt(varianceOf(values, mean)),
   percentile95 |-> ElementOrZero(sorted, percentile95Index(Len(sorted)))]

\* calculateDistributionStats without the early return on an empty array
calculateDistributionStats_NoEmptyGuard(values) ==
  distributionOf(values, sortedCopy(values), meanOf(values))

calculateDistributionStats(values) ==
  IF Len(values) = 0
    THEN [mean |-> Zero, median |-> Zero, min |-> Zero, max |-> Zero,
          stdDev |-> Zero, percentile95 |-> Zero]
    ELSE distributionOf(values, sortedCopy(values), meanOf(values))

\* ------------------------------------------------------------------------
\* DataProcessor: time units and durations
\* ------------------------------------------------------------------------
NS_PER_S == 1000000000
S_PER_MIN == 60
S_PER_H == 3600

\* The divisor of each unit as a sequence of factors: 60_000_000_000 and
\* 3_600_000_000_000 are held as 1e9 * 60 and 1e9 * 3600.
UnitFactors ==
  [ns  |-> <<>>,
   ms  |-> <<NS_PER_MS>>,
   s   |-> <<NS_PER_S>>,
   min |-> <<NS_PER_S, S_PER_MIN>>,
   h   |-> <<NS_PER_S, S_PER_H>>]

\* x divided by the product of the factors
RECURSIVE DivideBy(_, _)
DivideBy(x, factors) ==
  IF factors = <<>> THEN x
  ELSE DivideBy(Over(x, Num(factors[1])), Tail(factors))

\* convertTimeUnit with the divisor of minutes a thousand times too small
convertTimeUnit_ShortMinute(nanoseconds, unit) ==
  IF unit = "min" THEN DivideBy(nanoseconds, <<NS_PER_MS, S_PER_MIN>>)
  ELSE IF unit \in DOMAIN UnitFactors THEN DivideBy(nanoseconds, UnitFactors[unit])
  ELSE nanoseconds

\* switch (targetUnit): the quotient by the unit's divisor, the value itself
\* for 'ns' and for any other unit
convertTimeUnit(nanoseconds, unit) ==
  IF unit \in DOMAIN UnitFactors THEN DivideBy(nanoseconds, UnitFactors[unit])
  ELSE nanoseconds

\* a < b on numbers: false when either is NaN
LessThan(a, b) == ~IsNaN(a) /\ ~IsNaN(b) /\ Minus(a, b).n < 0

\* Math.floor
Floor(x) == IF x.d = 0 THEN x ELSE Num(x.n \div x.d)

\* Math.round: the nearest integer, halves upwards
Round(x) == IF x.d = 0 THEN x ELSE Floor(Plus(x, Frac(1, 2)))

\* The integer part of the finite x, towards zero
Trunc(x) == IF x.n >= 0 THEN Num(x.n \div x.d) ELSE Num(-((-x.n) \div x.d))

\* x % m for a positive integer m: the remainder has the sign of x; NaN for
\* an infinite or NaN x.
Remainder(x, m) ==
  IF x.d = 0 THEN NaN ELSE Minus(x, Times(Num(m), Trunc(Over(x, Num(m)))))

DigitChar == <<"0","1","2","3","4","5","6","7","8","9">>

\* The decimal digits of k >= 0
RECURSIVE DigitsOf(_)
DigitsOf(k) ==
  IF k < 10 THEN <<DigitChar[k + 1]>>
  ELSE Append(DigitsOf(k \div 10), DigitChar[(k % 10) + 1])

Str_NaN == <<"N","a","N">>
Str_Infinity == <<"I","n","f","i","n","i","t","y">>
Str_s == <<"s">>
Str_min == <<"m","i","n">>
Str_min_ == <<"m","i","n"," ">>
Str_h_ == <<"h"," ">>

\* `${x}` for an integer, infinite or NaN x
NumberToString(x) ==
  IF IsNaN(x) THEN Str_NaN
  ELSE IF x.d = 0 THEN (IF x.n > 0 THEN Str_Infinity ELSE <<"-">> \o Str_Infinity)
  ELSE IF x.n < 0 THEN <<"-">> \o DigitsOf(-x.n)
  ELSE DigitsOf(x.n)

\* formatDuration taking Math.floor of the seconds below a minute
formatDuration_Floor(seconds) ==
  IF LessThan(seconds, Num(S_PER_MIN))
    THEN NumberToString(Floor(seconds)) \o Str_s
  ELSE IF LessThan(seconds, Num(S_PER_H))
    THEN NumberToString(Floor(Over(seconds, Num(S_PER_MIN)))) \o Str_min_
           \o NumberToString(Round(Remainder(seconds, S_PER_MIN))) \o Str_s
  ELSE NumberToString(Floor(Over(seconds, Num(S_PER_H)))) \o Str_h_
         \o NumberToString(Floor(Over(Remainder(seconds, S_PER_H), Num(S_PER_MIN))))
         \o Str_min

formatDuration(seconds) ==
  IF LessThan(seconds, Num(S_PER_MIN))
    THEN NumberToString(Round(seconds)) \o Str_s
  ELSE IF LessThan(seconds, Num(S_PER_H))
    THEN NumberToString(Floor(Over(seconds, Num(S_PER_MIN)))) \o Str_min_
           \o NumberToString(Round(Remainder(seconds, S_PER_MIN))) \o Str_s
  ELSE NumberToString(Floor(Over(seconds, Num(S_PER_H)))) \o Str_h_
         \o NumberToString(Floor(Over(Remainder(seconds, S_PER_H), Num(S_PER_MIN))))
         \o Str_min

\* ------------------------------------------------------------------------
\* Inputs: the CSV files the loader may be given
\* ------------------------------------------------------------------------
MaxRecipeRows == 2
MaxSourceRows == 2
MaxSegments == 3

Name_MigrateFoo == <<"o","r","g",".","m","i","g","r","a","t","e",".","F","o","o">>
Name_MigrateFooQuoted == <<"\"","o","r","g",".","m","i","g","r","a","t","e",".","F","o","o","\"">>
Name_ToolsBar == <<"c","o","m",".","t","o","o","l","s",".","B","a","r">>
Name_OrderImports == <<"o","r","g",".","O","r","d","e","r","I","m","p","o","r","t","s">>
Name_EmptySegment == <<"o","r","g",".",".","B","a","z">>
Name_Blank == <<" "," ">>
Name_QuotedBlank == <<"'"," ","'">>
Desc_Recipe == <<"T","h","e"," ","r","e","c","i","p","e"," ","w","h","o","s","e"," ","s","t","a","t","s"," ","a","r","e"," ","b","e","i","n","g"," ","m","e","a","s","u","r","e","d"," ","b","o","t","h"," ","i","n","d","i","v","i","d","u","a","l","l","y"," ","a","n","d"," ","c","u","m","u","l","a","t","i","v","e","l","y",".">>
Desc_PathBefore == <<"T","h","e"," ","s","o","u","r","c","e"," ","p","a","t","h"," ","o","f"," ","t","h","e"," ","f","i","l","e"," ","b","e","f","o","r","e"," ","t","h","e"," ","r","u","n","."," ","n","u","l","l"," ","w","h","e","n"," ","a"," ","s","o","u","r","c","e"," ","f","i","l","e"," ","w","a","s"," ","c","r","e","a","t","e","d"," ","d","u","r","i","n","g"," ","t","h","e"," ","r","u","n",".">>
Desc_Text == <<"A"," ","d","e","s","c","r","i","p","t","i","o","n">>
Path_A == <<"a",".","j","a","v","a">>
Path_B == <<"b",".","j","a","v","a">>
Path_C == <<"c",".","j","a","v","a">>
Cell_NULL == <<"N","U","L","L">>
Cell_null == <<"n","u","l","l">>
Cell_abc == <<"a","b","c">>

\* A parsed CSV row: the cell of every column the loader reads, by header
RecipeRow(recipe, count, changed, scan, scan99, scanMax, edit, edit99, editMax) ==
  ("The recipe" :> recipe)
  @@ ("Source file count" :> count)
  @@ ("Source file changed count" :> changed)
  @@ ("Cumulative scanning time (ns)" :> scan)
  @@ ("99th percentile scanning time (ns)" :> scan99)
  @@ ("Max scanning time (ns)" :> scanMax)
  @@ ("Cumulative edit time (ns)" :> edit)
  @@ ("99th percentile edit time (ns)" :> edit99)
  @@ ("Max edit time (ns)" :> editMax)

SourceRow(before, after, recipe, saving, cycle) ==
  ("Source path before the run" :> before)
  @@ ("Source path after the run" :> after)
  @@ ("Recipe that made changes" :> recipe)
  @@ ("Estimated time saving" :> saving)
  @@ ("Cycle" :> cycle)

\* 0.5 s of scanning, 0.25 s of editing
RR_Migrate ==
  RecipeRow(Name_MigrateFoo, <<"1","0">>, <<"4">>,
            <<"5","0","0","0","0","0","0","0","0">>, <<"1","0","0","0">>, <<"2","0","0","0">>,
            <<"2","5","0","0","0","0","0","0","0">>, <<"5","0","0">>, <<"9","0","0">>)
\* every count and timing zero
RR_Zero ==
  RecipeRow(Name_ToolsBar, <<"0">>, <<"0">>, <<"0">>, <<"0">>, <<"0">>,
            <<"0">>, <<"0">>, <<"0">>)
\* scanning only; the edit cells are empty, missing, "null" or not a number
RR_Imports ==
  RecipeRow(Name_OrderImports, <<"8">>, <<"8">>,
            <<"2","5","0","0","0","0","0","0","0">>, Undefined, Cell_null,
            <<>>, Cell_abc, Cell_NULL)
\* a second row of the first recipe: quoted and padded cells, exponents, a
\* signed scanning time that cancels the edit time
RR_MigrateAgain ==
  RecipeRow(Name_MigrateFooQuoted, <<" ","5"," ">>, <<"'","1","'">>,
            <<"-","2",".","5","e","8">>, <<"1","0","0","0">>, <<"2","0","0","0">>,
            <<"2","5","e","7">>, <<"5","0","0">>, <<"9","0","0">>)
\* no recipe name
RR_Blank ==
  RecipeRow(Name_Blank, <<"3">>, <<"1">>, <<"1","0","0","0">>, <<"0">>, <<"0">>,
            <<"1","0","0","0">>, <<"0">>, <<"0">>)
\* a quoted blank as recipe name
RR_QuotedBlank ==
  RecipeRow(Name_QuotedBlank, <<"3">>, <<"1">>, <<"1","0","0","0">>, <<"0">>, <<"0">>,
            <<"1","0","0","0">>, <<"0">>, <<"0">>)
\* no recipe cell at all
RR_NoName ==
  RecipeRow(Undefined, <<"3">>, <<"1">>, <<"1","0","0","0">>, <<"0">>, <<"0">>,
            <<"1","0","0","0">>, <<"0">>, <<"0">>)
\* the column-description row of an OpenRewrite export
RR_Desc ==
  RecipeRow(Desc_Recipe, Desc_Text, Desc_Text, Desc_Text, Desc_Text, Desc_Text,
            Desc_Text, Desc_Text, Desc_Text)

RecipeRowPool == {RR_Migrate, RR_Zero, RR_Imports, RR_MigrateAgain, RR_Blank}

\* a file moved by the first recipe
SR_Moved ==
  SourceRow(Path_C, Path_A, Name_MigrateFoo, <<"3","0","0">>, <<"1">>)
\* a file created: no path before the run, a fractional saving
SR_Created ==
  SourceRow(<<>>, Path_B, Name_OrderImports, <<"2",".","5">>, <<"1">>)
\* a file deleted: "null" as the path after the run
SR_Deleted ==
  SourceRow(Path_A, Cell_null, Name_MigrateFooQuoted, <<"6","0">>, <<"2">>)
\* neither path, a negative saving, a recipe name with an empty segment
SR_NoPath ==
  SourceRow(Cell_NULL, Undefined, Name_EmptySegment, <<"-","3","0">>, <<"2">>)
\* no recipe name
SR_NoRecipe ==
  SourceRow(Path_B, Path_B, <<>>, <<"4","5">>, <<"1">>)
\* the column-description row of an OpenRewrite export
SR_Desc ==
  SourceRow(Desc_PathBefore, Desc_Text, Desc_Text, Desc_Text, Desc_Text)

SourceRowPool == {SR_Moved, SR_Created, SR_Deleted, SR_NoPath, SR_NoRecipe}

UsageRow(runId, recipeId, minutes, commitState) ==
  ("runId" :> runId)
  @@ ("recipeId" :> recipeId)
  @@ ("timeSavingsInMinutes" :> minutes)
  @@ ("commitState" :> commitState)

\* a completed run, its state in lower case and padded
UR_Completed ==
  UsageRow(<<"r","1">>, Name_MigrateFoo, <<"1","2">>,
           <<" ","c","o","m","p","l","e","t","e","d"," ">>)
\* a run without commit
UR_NoCommit == UsageRow(<<"r","2">>, Name_ToolsBar, <<"3">>, <<>>)
\* a completed run without run id
UR_NoRun == UsageRow(<<>>, Name_ToolsBar, <<"3">>, Str_COMPLETED)

SeqsUpTo(S, n) == UNION {[1..k -> S] : k \in 0..n}

\* A CSV file: an optional column-description row, then up to MaxRecipeRows
\* (MaxSourceRows) data rows.
RecipeCsvFiles ==
  {head \o rows : head \in {<<>>, <<RR_Desc>>},
                  rows \in SeqsUpTo(RecipeRowPool, MaxRecipeRows)}
SourceCsvFiles ==
  {head \o rows : head \in {<<>>, <<SR_Desc>>},
                  rows \in SeqsUpTo(SourceRowPool, MaxSourceRows)}

\* What loadRecipeRunStats and loadSourceFileResults return for those files
LoadedRecipeStats == {parseRecipeRunStats(csvData) : csvData \in RecipeCsvFiles}
LoadedSourceResults == {parseSourceFileResults(csvData) : csvData \in SourceCsvFiles}

\* Recipe names for the classification: up to MaxSegments segments joined
\* by dots.
SegmentPool ==
  {<<>>, <<"o","r","g">>, <<"t","o","o","l","s">>,
   <<"i","m","m","i","g","r","a","t","e","d">>, Str_OrderImports,
   Str_StringFormatted, Str_CompositeRecipe, Str_security, Str_junit,
   Str_logging, <<"J","u","n","i","t">>}

RECURSIVE JoinDots(_)
JoinDots(segs) ==
  IF segs = <<>> THEN <<>>
  ELSE IF Len(segs) = 1 THEN segs[1]
  ELSE segs[1] \o <<Str_dot>> \o JoinDots(Tail(segs))

ClassifyNames == {JoinDots(segs) : segs \in SeqsUpTo(SegmentPool, MaxSegments)}

\* Arrays of numbers for the distribution statistics: up to MaxValues
\* values, and the array of a single NaN.
MaxValues == 3

ValuePool == {Num(-2), Zero, Num(1), Num(5), Infinity}

ValueArrays == SeqsUpTo(ValuePool, MaxValues) \cup {<<NaN>>}

\* Durations in seconds: hours, minutes, seconds and a fraction, negative
\* durations, the infinities and NaN.
MaxHours == 1

SecondsPool ==
  {Plus(Num(h * S_PER_H + m * S_PER_MIN + sec), f) :
     h \in 0..MaxHours, m \in {0, 1, 2, 59}, sec \in {0, 5, 29, 45, 59},
     f \in {Zero, Frac(1, 2)}}
  \cup {Frac(-1, 4), Frac(-11, 2), Num(-90), Infinity, NegInfinity, NaN}

\* Durations in nanoseconds: multiples of 100 ms, Infinity and NaN.
MaxTenthSeconds == 12

NanosecondsPool ==
  {Num(k * 100 * NS_PER_MS) : k \in (-2)..MaxTenthSeconds} \cup {Infinity, NaN}

TimeUnits == {"ns", "ms", "s", "min", "h"}

\* ------------------------------------------------------------------------
\* State
\* ------------------------------------------------------------------------
VARIABLES
  recipeStats,        \* the recipe-run records passed to the processor
  sourceResults,      \* the file-change records passed to the processor
  values,             \* the array passed to calculateDistributionStats
  recipeName,         \* the argument of extractChangeType
  seconds,            \* the argument of formatDuration
  nanoseconds,        \* the value passed to convertTimeUnit
  targetUnit,         \* the unit passed to convertTimeUnit
  call,               \* the method called last
  ret,                \* what that call returned
  cache,              \* DataLoader.cache: cache key -> memoized array
  loads,              \* the calls of the load methods, in call order
  cachedBy,           \* history: cache key -> the load that stored the entry
  startedSinceClear,  \* history: <<method, file>> loaded since clearCache
  loadedSinceClear,   \* history: <<method, file>> fetched and stored since
  app                 \* the App: data, currentTab, loading indicator, operations, toasts

args ==
  <<recipeStats, sourceResults, values, recipeName, seconds, nanoseconds, targetUnit>>

loader == <<cache, loads, cachedBy, startedSinceClear, loadedSinceClear>>

vars == <<args, call, ret, loader, app>>

NoValue == <<>>

\* A new DataLoader: an empty cache, no load started.
LoaderInit ==
  /\ cache = <<>>
  /\ loads = <<>>
  /\ cachedBy = <<>>
  /\ startedSinceClear = {}
  /\ loadedSinceClear = {}

\* A new App (data.ts:1432-1448): empty record sets, no metrics, the usage
\* tab; no operation started, no toast shown. The loading overlay is the
\* page's to start with; it is taken as hidden until showLoading(true).
AppInit ==
  app = [data |-> [recipeStats |-> <<>>, sourceResults |-> <<>>,
                   usageReport |-> <<>>, roiMetrics |-> Null,
                   enrichedStats |-> <<>>],
         currentTab |-> "usage",
         loadingVisible |-> FALSE,
         ops |-> <<>>,
         toasts |-> <<>>]

\* No argument of the pure helpers chosen
HelpersInit ==
  /\ recipeName = NoValue
  /\ seconds = Zero
  /\ nanoseconds = Zero
  /\ targetUnit = "ns"

\* The processor is given either the record sequences loadRecipeRunStats and
\* loadSourceFileResults return for some pair of CSV files, or an array of
\* numbers.
Init ==
  /\ \/ /\ recipeStats \in LoadedRecipeStats
        /\ sourceResults \in LoadedSourceResults
        /\ values = <<>>
     \/ /\ recipeStats = <<>>
        /\ sourceResults = <<>>
        /\ values \in ValueArrays
  /\ HelpersInit
  /\ call = "none"
  /\ ret = NoValue
  /\ LoaderInit
  /\ AppInit

CalculateROIMetrics ==
  /\ call' = "calculateROIMetrics"
  /\ ret' = calculateROIMetrics(recipeStats, sourceResults)
  /\ UNCHANGED <<args, loader, app>>

EnrichRecipeStats ==
  /\ call' = "enrichRecipeStats"
  /\ ret' = enrichRecipeStats(recipeStats, sourceResults)
  /\ UNCHANGED <<args, loader, app>>

AggregateByChangeType ==
  /\ call' = "aggregateByChangeType"
  /\ ret' = aggregateByChangeType(recipeStats, sourceResults)
  /\ UNCHANGED <<args, loader, app>>

BuildRecipeHierarchy ==
  /\ call' = "buildRecipeHierarchy"
  /\ ret' = buildRecipeHierarchy(recipeStats, sourceResults)
  /\ UNCHANGED <<args, loader, app>>

CalculateTimeSeries ==
  /\ call' = "calculateTimeSeries"
  /\ ret' = calculateTimeSeries(sourceResults)
  /\ UNCHANGED <<args, loader, app>>

\* calculateDistributionStats sorting the array it was given
CalculateDistributionStats_InPlace ==
  /\ call' = "calculateDistributionStats"
  /\ ret' = calculateDistributionStats(values)
  /\ values' = sortedCopy(values)
  /\ UNCHANGED <<recipeStats, sourceResults, recipeName, seconds, nanoseconds,
                 targetUnit, loader, app>>

\* The array is read and a copy of it is sorted.
CalculateDistributionStats ==
  /\ call' = "calculateDistributionStats"
  /\ ret' = calculateDistributionStats(values)
  /\ UNCHANGED <<args, loader, app>>

Next ==
  \/ CalculateROIMetrics
  \/ EnrichRecipeStats
  \/ AggregateByChangeType
  \/ BuildRecipeHierarchy
  \/ CalculateTimeSeries
  \/ CalculateDistributionStats

Spec == Init /\ [][Next]_vars

\* No records and no array given to the processor
NoRecords ==
  /\ recipeStats = <<>>
  /\ sourceResults = <<>>
  /\ values = <<>>

\* The classification on its own: any recipe name, then extractChangeType.
InitClassify ==
  /\ NoRecords
  /\ recipeName \in ClassifyNames
  /\ seconds = Zero
  /\ nanoseconds = Zero
  /\ targetUnit = "ns"
  /\ call = "none"
  /\ ret = NoValue
  /\ LoaderInit
  /\ AppInit

ExtractChangeType ==
  /\ call' = "extractChangeType"
  /\ ret' = extractChangeType(recipeName)
  /\ UNCHANGED <<args, loader, app>>

NextClassify == ExtractChangeType

SpecClassify == InitClassify /\ [][NextClassify]_vars

\* The duration format on its own
InitDuration ==
  /\ NoRecords
  /\ recipeName = NoValue
  /\ seconds \in SecondsPool
  /\ nanoseconds = Zero
  /\ targetUnit = "ns"
  /\ call = "none"
  /\ ret = NoValue
  /\ LoaderInit
  /\ AppInit

FormatDuration ==
  /\ call' = "formatDuration"
  /\ ret' = formatDuration(seconds)
  /\ UNCHANGED <<args, loader, app>>

NextDuration == FormatDuration

SpecDuration == InitDuration /\ [][NextDuration]_vars

\* The unit conversion on its own
InitConvert ==
  /\ NoRecords
  /\ recipeName = NoValue
  /\ seconds = Zero
  /\ nanoseconds \in NanosecondsPool
  /\ targetUnit \in TimeUnits
  /\ call = "none"
  /\ ret = NoValue
  /\ LoaderInit
  /\ AppInit

ConvertTimeUnit ==
  /\ call' = "convertTimeUnit"
  /\ ret' = convertTimeUnit(nanoseconds, targetUnit)
  /\ UNCHANGED <<args, loader, app>>

NextConvert == ConvertTimeUnit

SpecConvert == InitConvert /\ [][NextConvert]_vars

\* ------------------------------------------------------------------------
\* The loader: loads, fetches in flight, the cache
\* ------------------------------------------------------------------------
MaxLoads == 2

File_A == <<"a",".","c","s","v">>
File_B == <<"b",".","c","s","v">>
FilePaths == {File_A, File_B}

\* What d3.csv may resolve to for a file of recipe-run rows and for a file
\* of file-change rows
RecipeResponses ==
  {<<RR_NoName, RR_Zero, RR_Migrate>>, <<RR_Desc, RR_Zero, RR_Blank, RR_QuotedBlank>>}
SourceResponses == {<<SR_Desc, SR_Moved, SR_Created, SR_NoRecipe, SR_NoPath>>}

UsageResponses == {<<UR_NoCommit, UR_Completed, UR_NoRun>>}

\* What d3.csv may reject with
Str_FetchError == <<"E","r","r","o","r",":"," ","4","0","4">>
FetchErrors == {Str_FetchError}

Str_recipe_stats_ == <<"r","e","c","i","p","e","-","s","t","a","t","s","-">>
Str_source_results_ ==
  <<"s","o","u","r","c","e","-","r","e","s","u","l","t","s","-">>
Str_usage_report_ == <<"u","s","a","g","e","-","r","e","p","o","r","t","-">>
Str_Impossible ==
  <<"I","m","p","o","s","s","i","b","l","e"," ","d","e"," ","c","h","a","r","g","e","r"," ",
    "l","e","s"," ","d","o","n","n","é","e","s"," ","d","e","p","u","i","s"," ">>

\* The prefix of a method's cache keys
KeyPrefix ==
  [loadRecipeRunStats |-> Str_recipe_stats_,
   loadSourceFileResults |-> Str_source_results_,
   loadUsageReport |-> Str_usage_report_]

\* cacheKey with the file path alone
cacheKey_PathOnly(method, filePath) == filePath

\* const cacheKey = `recipe-stats-${filePath}` (`source-results-${filePath}`)
cacheKey(method, filePath) == KeyPrefix[method] \o filePath

\* new Error(`Impossible de charger les données depuis ${filePath}: ${error}`)
loadError(filePath, error) == Str_Impossible \o filePath \o <<":"," ">> \o error

\* this.cache.set(cacheKey, parsedData)
cacheSet(map, key, value) == (key :> value) @@ map

\* ------------------------------------------------------------------------
\* The application: its data, its loading indicator, its operations
\* ------------------------------------------------------------------------
\* The loads the App may start: two operations of three loads each
MaxAppLoads == 6

\* The default paths of the three load methods
Path_RecipeRunStats ==
  <<"d","a","t","a","/","o","r","g",".","o","p","e","n","r","e","w","r","i","t","e",".",
    "t","a","b","l","e",".","R","e","c","i","p","e","R","u","n","S","t","a","t","s",".",
    "c","s","v">>
Path_SourcesFileResults ==
  <<"d","a","t","a","/","o","r","g",".","o","p","e","n","r","e","w","r","i","t","e",".",
    "t","a","b","l","e",".","S","o","u","r","c","e","s","F","i","l","e","R","e","s","u",
    "l","t","s",".","c","s","v">>
Path_UsageReport ==
  <<"d","a","t","a","/","u","s","a","g","e","-","r","e","p","o","r","t",".","c","s",
    "v">>

Msg_InitFailed ==
  <<"I","m","p","o","s","s","i","b","l","e"," ","d","e"," ","c","h","a","r","g","e","r",
    " ","l","e","s"," ","d","o","n","n","é","e","s">>
Msg_RefreshFailed ==
  <<"E","r","r","e","u","r"," ","l","o","r","s"," ","d","e"," ","l","'","a","c","t","u",
    "a","l","i","s","a","t","i","o","n">>
Msg_Loaded ==
  <<"D","o","n","n","é","e","s"," ","c","h","a","r","g","é","e","s"," ","a","v","e","c",
    " ","s","u","c","c","è","s">>
Msg_Refreshed ==
  <<"D","o","n","n","é","e","s"," ","a","c","t","u","a","l","i","s","é","e","s">>

\* The tabs whose buttons are clicked
Tabs == {"usage", "performance"}

\* loadAllData after clearCache or on a new loader: Promise.all over the
\* three load methods called with their default paths, each of which finds
\* no entry and starts its fetch.
loadAllDataCalls ==
  <<[method |-> "loadRecipeRunStats", filePath |-> Path_RecipeRunStats,
     state |-> "fetching", result |-> NoValue, first |-> TRUE,
     memoized |-> FALSE, from |-> 0],
    [method |-> "loadSourceFileResults", filePath |-> Path_SourcesFileResults,
     state |-> "fetching", result |-> NoValue, first |-> TRUE,
     memoized |-> FALSE, from |-> 0],
    [method |-> "loadUsageReport", filePath |-> Path_UsageReport,
     state |-> "fetching", result |-> NoValue, first |-> TRUE,
     memoized |-> FALSE, from |-> 0]>>

\* showToast(message, type)
showToast(a, message, type) ==
  [a EXCEPT !.toasts = Append(@, [type |-> type, message |-> message])]

\* showError(message, error): a toast of `${message}: ${error.message}`
showError(a, message, errorMessage) ==
  showToast(a, message \o <<":", " ">> \o errorMessage, "error")

\* showLoading(show)
showLoading(a, show) == [a EXCEPT !.loadingVisible = show]

\* Array.prototype.sort with (a, b) => b.totalExecutionTimeMs -
\* a.totalExecutionTimeMs, by insertion from the left (the sort is stable)
RECURSIVE insertByExecutionTime(_, _)
insertByExecutionTime(sorted, d) ==
  IF sorted # <<>> /\ Before(sorted[Len(sorted)].totalExecutionTimeMs,
                             d.totalExecutionTimeMs)
    THEN Append(insertByExecutionTime(SubSeq(sorted, 1, Len(sorted) - 1), d),
                sorted[Len(sorted)])
    ELSE Append(sorted, d)

RECURSIVE sortFirstByExecutionTime(_, _)
sortFirstByExecutionTime(stats, k) ==
  IF k = 0 THEN <<>>
  ELSE insertByExecutionTime(sortFirstByExecutionTime(stats, k - 1), stats[k])

\* renderExecutionTimeChart leaving data.enrichedStats as it found it
renderExecutionTimeChart_OnCopy(a) == a

\* renderExecutionTimeChart, the page having the chart's container: nothing
\* is sorted when there is no data; otherwise this.data.enrichedStats.sort(...)
\* sorts the array of the App itself, and the ten first of it are drawn.
renderExecutionTimeChart(a) ==
  [a EXCEPT !.data.enrichedStats = sortFirstByExecutionTime(@, Len(@))]

\* The switch of showTab: of the tabs, performance alone renders the
\* execution-time chart; the renderings of the other tabs read the data
\* (renderSavingsByRecipeChart sorts the copy that filter returns).
renderTab(a, tabId) ==
  IF tabId = "performance" THEN renderExecutionTimeChart(a) ELSE a

\* showTab(tabId) from its showLoading(true) to the showLoading(false) of
\* its finally; none of its awaits waits for anything but a microtask.
showTab(a, tabId) ==
  showLoading(renderTab([showLoading(a, TRUE) EXCEPT !.currentTab = tabId], tabId),
              FALSE)

\* loadAndProcessData after loadAllData resolved: the three record sets and
\* the two derivations are assigned.
processedData(data, rs, sr, ur) ==
  [recipeStats |-> rs, sourceResults |-> sr, usageReport |-> ur,
   roiMetrics |-> calculateROIMetrics(rs, sr),
   enrichedStats |-> enrichRecipeStats(rs, sr)]

\* An operation of the App that awaits loadAllData: its kind, where it
\* stands and the three loads it awaits
Operation(kind, firstLoad) ==
  [kind |-> kind, state |-> "loading",
   loads |-> <<firstLoad, firstLoad + 1, firstLoad + 2>>]

\* The loads of operation k that were rejected
rejectedOf(a, L, k) == {j \in 1..3 : L[a.ops[k].loads[j]].state = "rejected"}

\* opFailed storing the recipe records when their load had resolved
opFailed_StoringLoaded(a, L, k, i) ==
  [a EXCEPT !.ops[k].state = "failed",
            !.loadingVisible = FALSE,
            !.toasts = Append(@, [type |-> "error", message |-> L[i].result]),
            !.data.recipeStats = IF L[a.ops[k].loads[1]].state = "fulfilled"
                                   THEN L[a.ops[k].loads[1]].result ELSE @]

\* The continuation of operation k after loadAllData rejected with the
\* error of load i: the catch shows the error, the finally hides the
\* indicator; data is not assigned.
opFailed(a, L, k, i) ==
  [showLoading(showError(a, IF a.ops[k].kind = "initialize" THEN Msg_InitFailed
                                                            ELSE Msg_RefreshFailed,
                         L[i].result),
               FALSE)
   EXCEPT !.ops[k].state = "failed"]

\* The App with the data of operation k's three loads
opLoaded(a, L, k) ==
  [a EXCEPT !.data = processedData(@, L[a.ops[k].loads[1]].result,
                                   L[a.ops[k].loads[2]].result,
                                   L[a.ops[k].loads[3]].result),
            !.ops[k].state = "done"]

\* The continuation of operation k after loadAllData resolved. initialize:
\* initializeUI (KPI cards, toast), showTab('usage'), finally. refreshData:
\* updateKPICards, showTab(this.currentTab), toast, finally.
opSucceeded(a, L, k) ==
  IF a.ops[k].kind = "initialize"
    THEN showLoading(showTab(showToast(opLoaded(a, L, k), Msg_Loaded, "success"),
                             "usage"),
                     FALSE)
    ELSE showLoading(showToast(showTab(opLoaded(a, L, k), a.currentTab),
                               Msg_Refreshed, "success"),
                     FALSE)

\* Operation k resumed if the promise it awaits has settled: Promise.all
\* rejects with the first rejection and resolves when all three loads have.
settleOp(a, L, k) ==
  IF a.ops[k].state # "loading" THEN a
  ELSE IF rejectedOf(a, L, k) # {}
    THEN opFailed(a, L, k, a.ops[k].loads[CHOOSE j \in rejectedOf(a, L, k) : TRUE])
  ELSE IF \A j \in 1..3 : L[a.ops[k].loads[j]].state \in {"cached", "fulfilled"}
    THEN opSucceeded(a, L, k)
  ELSE a

\* The microtasks that run after a fetch settled: every operation whose
\* promise settled with it runs to its end.
RECURSIVE continueOpsFrom(_, _, _)
continueOpsFrom(a, L, k) ==
  IF k > Len(a.ops) THEN a ELSE continueOpsFrom(settleOp(a, L, k), L, k + 1)

continueOps(a, L) == continueOpsFrom(a, L, 1)

\* A call of a load method: what it was called with, where it stands
\* ("cached": returned from the cache, "fetching": awaiting d3.csv,
\* "fulfilled", "rejected"), its result, and as history whether it is the
\* first call for its method and file since clearCache, whether a fetch for
\* them had been stored since clearCache, and the load whose fetch its data
\* are from.
LoadCall(method, filePath, state, result, from) ==
  [method |-> method, filePath |-> filePath, state |-> state, result |-> result,
   first |-> <<method, filePath>> \notin startedSinceClear,
   memoized |-> <<method, filePath>> \in loadedSinceClear,
   from |-> from]

\* The call of a load method up to its return or its await: the memoized
\* array when the cache has the key, else the fetch is started.
StartLoad(method, filePath, key) ==
  /\ Len(loads) < MaxLoads
  /\ loads' = Append(loads,
       IF key \in DOMAIN cache
         THEN LoadCall(method, filePath, "cached", cache[key], cachedBy[key])
         ELSE LoadCall(method, filePath, "fetching", NoValue, 0))
  /\ startedSinceClear' = startedSinceClear \cup {<<method, filePath>>}
  /\ call' = method
  /\ ret' = Len(loads) + 1
  /\ UNCHANGED <<args, cache, cachedBy, loadedSinceClear>>

LoadRecipeRunStats ==
  \E filePath \in FilePaths :
    /\ StartLoad("loadRecipeRunStats", filePath, cacheKey("loadRecipeRunStats", filePath))
    /\ UNCHANGED app

LoadSourceFileResults ==
  \E filePath \in FilePaths :
    /\ StartLoad("loadSourceFileResults", filePath,
       cacheKey("loadSourceFileResults", filePath))
    /\ UNCHANGED app

LoadUsageReport ==
  \E filePath \in FilePaths :
    /\ StartLoad("loadUsageReport", filePath, cacheKey("loadUsageReport", filePath))
    /\ UNCHANGED app

\* d3.csv resolved for load i: the rows are parsed, the array is stored
\* under the load's key and returned.
StoreFetched(i, key, parsedData) ==
  /\ cache' = cacheSet(cache, key, parsedData)
  /\ cachedBy' = cacheSet(cachedBy, key, i)
  /\ loads' = [loads EXCEPT ![i].state = "fulfilled", ![i].result = parsedData,
                            ![i].from = i]
  /\ loadedSinceClear' = loadedSinceClear \cup {<<loads[i].method, loads[i].filePath>>}
  /\ app' = continueOps(app, loads')
  /\ call' = "fetched"
  /\ ret' = i
  /\ UNCHANGED <<args, startedSinceClear>>

RecipeStatsFetched ==
  \E i \in DOMAIN loads, csvData \in RecipeResponses :
    /\ loads[i].method = "loadRecipeRunStats"
    /\ loads[i].state = "fetching"
    /\ StoreFetched(i, cacheKey(loads[i].method, loads[i].filePath),
                    parseRecipeRunStats(csvData))

SourceResultsFetched ==
  \E i \in DOMAIN loads, csvData \in SourceResponses :
    /\ loads[i].method = "loadSourceFileResults"
    /\ loads[i].state = "fetching"
    /\ StoreFetched(i, cacheKey(loads[i].method, loads[i].filePath),
                    parseSourceFileResults(csvData))

UsageReportFetched ==
  \E i \in DOMAIN loads, csvData \in UsageResponses :
    /\ loads[i].method = "loadUsageReport"
    /\ loads[i].state = "fetching"
    /\ StoreFetched(i, cacheKey(loads[i].method, loads[i].filePath),
                    parseUsageReport(csvData))

\* FailLoad storing an empty array under the key of the failed load
FailLoad_Caching(i, error) ==
  /\ loads' = [loads EXCEPT ![i].state = "rejected",
                            ![i].result = loadError(loads[i].filePath, error)]
  /\ cache' = cacheSet(cache, cacheKey(loads[i].method, loads[i].filePath), <<>>)
  /\ cachedBy' = cacheSet(cachedBy, cacheKey(loads[i].method, loads[i].filePath), i)
  /\ app' = continueOps(app, loads')
  /\ call' = "failed"
  /\ ret' = i
  /\ UNCHANGED <<args, startedSinceClear, loadedSinceClear>>

\* d3.csv rejected for load i: the catch block throws a new Error, nothing
\* is stored.
FailLoad(i, error) ==
  /\ loads' = [loads EXCEPT ![i].state = "rejected",
                            ![i].result = loadError(loads[i].filePath, error)]
  /\ app' = continueOps(app, loads')
  /\ call' = "failed"
  /\ ret' = i
  /\ UNCHANGED <<args, cache, cachedBy, startedSinceClear, loadedSinceClear>>

RecipeStatsFailed ==
  \E i \in DOMAIN loads, error \in FetchErrors :
    /\ loads[i].method = "loadRecipeRunStats"
    /\ loads[i].state = "fetching"
    /\ FailLoad(i, error)

SourceResultsFailed ==
  \E i \in DOMAIN loads, error \in FetchErrors :
    /\ loads[i].method = "loadSourceFileResults"
    /\ loads[i].state = "fetching"
    /\ FailLoad(i, error)

UsageReportFailed ==
  \E i \in DOMAIN loads, error \in FetchErrors :
    /\ loads[i].method = "loadUsageReport"
    /\ loads[i].state = "fetching"
    /\ FailLoad(i, error)

\* clearCache(): this.cache.clear()
ClearCache ==
  /\ cache' = <<>>
  /\ cachedBy' = <<>>
  /\ startedSinceClear' = {}
  /\ loadedSinceClear' = {}
  /\ call' = "clearCache"
  /\ ret' = NoValue
  /\ UNCHANGED <<args, loads, app>>

InitLoader ==
  /\ NoRecords
  /\ HelpersInit
  /\ call = "none"
  /\ ret = NoValue
  /\ LoaderInit
  /\ AppInit

NextLoader ==
  \/ LoadRecipeRunStats
  \/ LoadSourceFileResults
  \/ LoadUsageReport
  \/ RecipeStatsFetched
  \/ SourceResultsFetched
  \/ UsageReportFetched
  \/ RecipeStatsFailed
  \/ SourceResultsFailed
  \/ UsageReportFailed
  \/ ClearCache

SpecLoader == InitLoader /\ [][NextLoader]_vars

\* ------------------------------------------------------------------------
\* The application's operations
\* ------------------------------------------------------------------------
\* The <<method, file>> pairs loadAllData loads
loadAllDataKeys == {<<loadAllDataCalls[j].method, loadAllDataCalls[j].filePath>> : j \in 1..3}

\* initialize() up to the await of loadAllData: the indicator is shown, the
\* handlers are installed, the three fetches start.
Initialize ==
  /\ app.ops = <<>>
  /\ Len(loads) + 3 <= MaxAppLoads
  /\ loads' = loads \o loadAllDataCalls
  /\ startedSinceClear' = startedSinceClear \cup loadAllDataKeys
  /\ app' = [showLoading(app, TRUE)
             EXCEPT !.ops = Append(@, Operation("initialize", Len(loads) + 1))]
  /\ call' = "initialize"
  /\ ret' = NoValue
  /\ UNCHANGED <<args, cache, cachedBy, loadedSinceClear>>

\* A click on the refresh button, refreshData() up to the await of
\* loadAllData: the indicator is shown, the cache is cleared, three fetches
\* start.
RefreshData ==
  /\ app.ops # <<>>
  /\ Len(loads) + 3 <= MaxAppLoads
  /\ cache' = <<>>
  /\ cachedBy' = <<>>
  /\ loadedSinceClear' = {}
  /\ startedSinceClear' = loadAllDataKeys
  /\ loads' = loads \o loadAllDataCalls
  /\ app' = [showLoading(app, TRUE)
             EXCEPT !.ops = Append(@, Operation("refreshData", Len(loads) + 1))]
  /\ call' = "refreshData"
  /\ ret' = NoValue
  /\ UNCHANGED args

\* A click on a tab button: showTab(tabId) runs to its end.
ShowTab ==
  \E tabId \in Tabs :
    /\ app.ops # <<>>
    /\ app' = showTab(app, tabId)
    /\ call' = "showTab"
    /\ ret' = NoValue
    /\ UNCHANGED <<args, loader>>

\* A click on a time-unit button while the performance tab is shown
ChangeTimeUnit ==
  /\ app.ops # <<>>
  /\ app.currentTab = "performance"
  /\ app' = renderExecutionTimeChart(app)
  /\ call' = "renderExecutionTimeChart"
  /\ ret' = NoValue
  /\ UNCHANGED <<args, loader>>

InitApp ==
  /\ NoRecords
  /\ HelpersInit
  /\ call = "none"
  /\ ret = NoValue
  /\ LoaderInit
  /\ AppInit

NextApp ==
  \/ Initialize
  \/ RefreshData
  \/ ShowTab
  \/ ChangeTimeUnit
  \/ RecipeStatsFetched
  \/ SourceResultsFetched
  \/ UsageReportFetched
  \/ RecipeStatsFailed
  \/ SourceResultsFailed
  \/ UsageReportFailed

SpecApp == InitApp /\ [][NextApp]_vars

\* ------------------------------------------------------------------------
\* Properties
\* ------------------------------------------------------------------------
\* The sum of f over the index set S, in no particular order.
RECURSIVE SetSum(_, _)
SetSum(S, f) ==
  IF S = {} THEN Zero
  ELSE LET x == CHOOSE y \in S : TRUE IN Plus(f[x], SetSum(S \ {x}, f))

SavingOf == [j \in DOMAIN sourceResults |-> sourceResults[j].estimatedTimeSaving]

\* C1: calculateROIMetrics returns roi with roi * totalExecutionTime =
\* totalTimeSaved * 100 when totalExecutionTime > 0 and roi = 0 when
\* totalExecutionTime is 0, whatever totalTimeSaved is; totalTimeSaved is
\* the sum of estimatedTimeSaving over all file-change records.
C1_Roi ==
  call = "calculateROIMetrics" =>
    /\ ret.totalTimeSaved = SetSum(DOMAIN sourceResults, SavingOf)
    /\ GtZero(ret.totalExecutionTime) =>
         Times(ret.roi, ret.totalExecutionTime) = Times(ret.totalTimeSaved, Num(100))
    /\ ret.totalExecutionTime = Zero => ret.roi = Zero

\* Time was saved and time was spent: the ROI is a positive percentage.
C1_Witness ==
  /\ call = "calculateROIMetrics"
  /\ GtZero(ret.totalExecutionTime)
  /\ GtZero(ret.totalTimeSaved)
  /\ GtZero(ret.roi)

\* The path a file-change record counts under: sourcePathAfter when it is
\* not null, else sourcePathBefore.
EffectivePath(result) ==
  IF result.sourcePathAfter # Null THEN result.sourcePathAfter
  ELSE result.sourcePathBefore

\* C2: totalFilesChanged is the number of distinct non-null effective paths
\* of the file-change records, and so never exceeds the number of records.
C2_UniqueFiles ==
  call = "calculateROIMetrics" =>
    /\ ret.totalFilesChanged =
         Cardinality({EffectivePath(sourceResults[j]) : j \in DOMAIN sourceResults} \ {Null})
    /\ ret.totalFilesChanged <= Len(sourceResults)

\* Two records of one file, one of them a deletion known by its path before.
C2_Witness ==
  /\ call = "calculateROIMetrics"
  /\ Len(sourceResults) = 2
  /\ ret.totalFilesChanged = 1
  /\ \E j \in DOMAIN sourceResults :
       sourceResults[j].sourcePathAfter = Null /\ sourceResults[j].sourcePathBefore # Null

\* C3: calculateROIMetrics always returns finite numbers: efficiency *
\* totalFilesProcessed = totalFilesChanged * 100 when totalFilesProcessed > 0
\* and efficiency = 0 otherwise; impactPerFile * totalFilesChanged =
\* totalTimeSaved when totalFilesChanged > 0 and impactPerFile = 0 otherwise.
C3_GuardedDivisions ==
  call = "calculateROIMetrics" =>
    /\ \A f \in {"totalTimeSaved", "totalExecutionTime", "roi", "efficiency",
                 "impactPerFile", "totalFilesProcessed"} : IsFiniteNum(ret[f])
    /\ IF GtZero(ret.totalFilesProcessed)
         THEN Times(ret.efficiency, ret.totalFilesProcessed) = Num(ret.totalFilesChanged * 100)
         ELSE ret.efficiency = Zero
    /\ IF ret.totalFilesChanged > 0
         THEN Times(ret.impactPerFile, Num(ret.totalFilesChanged)) = ret.totalTimeSaved
         ELSE ret.impactPerFile = Zero

\* The call on two empty sequences returned, with zero ratios.
C3_Witness ==
  /\ call = "calculateROIMetrics"
  /\ recipeStats = <<>>
  /\ sourceResults = <<>>
  /\ ret.efficiency = Zero
  /\ ret.impactPerFile = Zero

\* C4: enrichRecipeStats returns one output per input record, in the input
\* order, the i-th output carrying every field of the i-th input unchanged.
C4_OnePerRecord ==
  call = "enrichRecipeStats" =>
    /\ Len(ret) = Len(recipeStats)
    /\ \A i \in DOMAIN recipeStats :
         \A f \in DOMAIN recipeStats[i] : ret[i][f] = recipeStats[i][f]

\* Two different records of the same recipe were enriched.
C4_Witness ==
  /\ call = "enrichRecipeStats"
  /\ Len(recipeStats) = 2
  /\ recipeStats[1].recipe = recipeStats[2].recipe
  /\ recipeStats[1] # recipeStats[2]
  /\ Len(ret) = 2

TimingFields ==
  {"cumulativeScanningTime", "percentile99ScanningTime", "maxScanningTime",
   "cumulativeEditTime", "percentile99EditTime", "maxEditTime"}

\* C5: scanEditRatio * cumulativeEditTime = cumulativeScanningTime when the
\* edit time is > 0; the ratio is Infinity when the edit time is 0 and the
\* scan time is > 0, and 0 when both are 0; a record whose timings are all
\* zero gets scanEditRatio = 0 and totalExecutionTimeMs = 0.
C5_ScanEditRatio ==
  call = "enrichRecipeStats" =>
    \A i \in DOMAIN recipeStats :
      LET r == recipeStats[i] IN
        /\ GtZero(r.cumulativeEditTime) =>
             Times(ret[i].scanEditRatio, r.cumulativeEditTime) = r.cumulativeScanningTime
        /\ (r.cumulativeEditTime = Zero /\ GtZero(r.cumulativeScanningTime)) =>
             ret[i].scanEditRatio = Infinity
        /\ (r.cumulativeEditTime = Zero /\ r.cumulativeScanningTime = Zero) =>
             ret[i].scanEditRatio = Zero
        /\ (\A f \in TimingFields : r[f] = Zero) =>
             ret[i].scanEditRatio = Zero /\ ret[i].totalExecutionTimeMs = Zero

\* A record that was scanned but never edited got the ratio Infinity.
C5_Witness ==
  /\ call = "enrichRecipeStats"
  /\ \E i \in DOMAIN recipeStats :
       /\ recipeStats[i].cumulativeEditTime = Zero
       /\ GtZero(recipeStats[i].cumulativeScanningTime)
       /\ ret[i].scanEditRatio = Infinity

\* C6: the totalTimeSaved attached to record r is the sum of
\* estimatedTimeSaving over exactly the file-change records whose
\* recipeChanges equals r.recipe, 0 when there is none.
C6_JoinByName ==
  call = "enrichRecipeStats" =>
    \A i \in DOMAIN recipeStats :
      ret[i].totalTimeSaved =
        SetSum({j \in DOMAIN sourceResults :
                  sourceResults[j].recipeChanges = recipeStats[i].recipe}, SavingOf)

\* A record got the saving of its own file change while a file change of
\* another recipe, with a saving of its own, was left out.
C6_Witness ==
  /\ call = "enrichRecipeStats"
  /\ \E i \in DOMAIN recipeStats : \E j, k \in DOMAIN sourceResults :
       /\ sourceResults[j].recipeChanges = recipeStats[i].recipe
       /\ sourceResults[k].recipeChanges # recipeStats[i].recipe
       /\ sourceResults[k].estimatedTimeSaving # Zero
       /\ ret[i].totalTimeSaved = sourceResults[j].estimatedTimeSaving
       /\ ret[i].totalTimeSaved # Zero

\* C7: recipeROI * (totalExecutionTimeMs / 1000) = totalTimeSaved * 100 when
\* scan + edit > 0 and recipeROI = 0 when scan + edit = 0; changeEfficiency *
\* sourceFileCount = sourceFileChangedCount * 100 when sourceFileCount > 0
\* and changeEfficiency = 0 otherwise.
C7_RecipeRoi ==
  call = "enrichRecipeStats" =>
    \A i \in DOMAIN recipeStats :
      LET r == recipeStats[i]
          ns == Plus(r.cumulativeScanningTime, r.cumulativeEditTime)
      IN /\ GtZero(ns) =>
              Times(ret[i].recipeROI, Over(ret[i].totalExecutionTimeMs, Num(1000)))
                = Times(ret[i].totalTimeSaved, Num(100))
         /\ ns = Zero => ret[i].recipeROI = Zero
         /\ IF GtZero(r.sourceFileCount)
              THEN Times(ret[i].changeEfficiency, r.sourceFileCount)
                     = Times(r.sourceFileChangedCount, Num(100))
              ELSE ret[i].changeEfficiency = Zero

\* A record with time spent, time saved and files changed.
C7_Witness ==
  /\ call = "enrichRecipeStats"
  /\ \E i \in DOMAIN recipeStats :
       /\ GtZero(ret[i].totalExecutionTimeMs)
       /\ GtZero(ret[i].totalTimeSaved)
       /\ GtZero(ret[i].recipeROI)
       /\ GtZero(ret[i].changeEfficiency)

\* sub occurs in s at some offset
Contains(s, sub) ==
  \E off \in 0..Len(s) :
    /\ off + Len(sub) <= Len(s)
    /\ \A k \in 1..Len(sub) : s[off + k] = sub[k]

\* The substring tests in their order, each with its label.
ChangeTypeTests ==
  << <<Str_migrate, Str_Migration>>,
     <<Str_OrderImports, Str_ImportOrganization>>,
     <<Str_StringFormatted, Str_StringFormatting>>,
     <<Str_CompositeRecipe, Str_Composite>>,
     <<Str_security, Str_Security>>,
     <<Str_junit, Str_Testing>>,
     <<Str_logging, Str_Logging>> >>

NoTestMatches(name) ==
  \A k \in DOMAIN ChangeTypeTests : ~Contains(name, ChangeTypeTests[k][1])

\* C8: for a non-empty recipe name the classification is the label of the
\* earliest substring test that matches, whatever the later tests and the
\* package segments are.
C8_FirstMatchWins ==
  (call = "extractChangeType" /\ recipeName # <<>>) =>
    \A k \in DOMAIN ChangeTypeTests :
      (/\ Contains(recipeName, ChangeTypeTests[k][1])
       /\ \A h \in 1..(k - 1) : ~Contains(recipeName, ChangeTypeTests[h][1]))
        => ret = ChangeTypeTests[k][2]

\* A name of three segments that matches "migrate" inside a word and
\* "junit" as well is a Migration.
C8_Witness ==
  /\ call = "extractChangeType"
  /\ Contains(recipeName, Str_migrate)
  /\ Contains(recipeName, Str_junit)
  /\ Cardinality({i \in DOMAIN recipeName : recipeName[i] = Str_dot}) = 2
  /\ ret = Str_Migration

DotsOf(name) == {i \in DOMAIN name : name[i] = Str_dot}
SegmentCount(name) == Cardinality(DotsOf(name)) + 1

\* The text between the last two dots of a name with at least two dots.
SecondToLastSegment(name) ==
  LET last == CHOOSE i \in DotsOf(name) : \A j \in DotsOf(name) : j <= i
      prev == CHOOSE i \in DotsOf(name) \ {last} : \A j \in DotsOf(name) \ {last} : j <= i
  IN [k \in 1..(last - prev - 1) |-> name[prev + k]]

\* C9 as stated: with no substring match, the second-to-last segment
\* whenever the name has more than 2 segments, "Other" otherwise, "Unknown"
\* for the empty name.
C9_Original ==
  call = "extractChangeType" =>
    /\ recipeName = <<>> => ret = Str_Unknown
    /\ (recipeName # <<>> /\ NoTestMatches(recipeName)) =>
         IF SegmentCount(recipeName) > 2
           THEN ret = SecondToLastSegment(recipeName)
           ELSE ret = Str_Other

\* C9: with no substring match, the classification is the second-to-last
\* dot-separated segment when the name has more than 2 segments and that
\* segment is not empty, "Other" when the name has 2 or fewer segments or
\* the second-to-last segment is empty, and "Unknown" for the empty name.
C9_PackageFallback ==
  call = "extractChangeType" =>
    /\ recipeName = <<>> => ret = Str_Unknown
    /\ (recipeName # <<>> /\ NoTestMatches(recipeName)) =>
         IF SegmentCount(recipeName) > 2 /\ SecondToLastSegment(recipeName) # <<>>
           THEN ret = SecondToLastSegment(recipeName)
           ELSE ret = Str_Other

\* A name of three segments whose middle segment is empty is "Other".
C9_Witness ==
  /\ call = "extractChangeType"
  /\ NoTestMatches(recipeName)
  /\ SegmentCount(recipeName) = 3
  /\ SecondToLastSegment(recipeName) = <<>>
  /\ ret = Str_Other

SourceChangeTypes ==
  {extractChangeType(sourceResults[j].recipeChanges) : j \in DOMAIN sourceResults}

ExecutionMsOf ==
  [i \in DOMAIN recipeStats |->
     Over(Plus(recipeStats[i].cumulativeScanningTime, recipeStats[i].cumulativeEditTime),
          Num(1000000))]

\* C10: every bucket of aggregateByChangeType is the change type of some
\* file-change record; its executionTime is the sum of (scan + edit) / 1e6
\* over the recipe-run records of that change type; a recipe-run record
\* whose change type has no file-change record adds no bucket.
C10_BucketsFromFileChanges ==
  call = "aggregateByChangeType" =>
    /\ \A b \in DOMAIN ret :
         /\ ret[b].changeType \in SourceChangeTypes
         /\ ret[b].executionTime =
              SetSum({i \in DOMAIN recipeStats :
                        extractChangeType(recipeStats[i].recipe) = ret[b].changeType},
                     ExecutionMsOf)
    /\ \A i \in DOMAIN recipeStats :
         extractChangeType(recipeStats[i].recipe) \notin SourceChangeTypes =>
           \A b \in DOMAIN ret : ret[b].changeType # extractChangeType(recipeStats[i].recipe)

\* One recipe-run record added its time to the bucket of a file change,
\* another one, of a change type without file change, added nothing.
C10_Witness ==
  /\ call = "aggregateByChangeType"
  /\ Len(ret) = 1
  /\ GtZero(ret[1].executionTime)
  /\ \E i \in DOMAIN recipeStats :
       /\ extractChangeType(recipeStats[i].recipe) \notin SourceChangeTypes
       /\ GtZero(ExecutionMsOf[i])

\* The file-change records classified into the bucket of changeType
MembersOf(changeType) ==
  {j \in DOMAIN sourceResults :
     extractChangeType(sourceResults[j].recipeChanges) = changeType}

\* C11: in every bucket of aggregateByChangeType, filesAffected is the number
\* of distinct non-null sourcePathAfter values of the file-change records of
\* that change type, timeSaved the sum of their estimatedTimeSaving, and
\* recipes the duplicate-free list of their recipeChanges names.
C11_BucketContents ==
  call = "aggregateByChangeType" =>
    \A b \in DOMAIN ret :
      /\ ret[b].filesAffected =
           Cardinality({sourceResults[j].sourcePathAfter : j \in MembersOf(ret[b].changeType)}
                         \ {Null})
      /\ ret[b].timeSaved = SetSum(MembersOf(ret[b].changeType), SavingOf)
      /\ {ret[b].recipes[k] : k \in DOMAIN ret[b].recipes} =
           {sourceResults[j].recipeChanges : j \in MembersOf(ret[b].changeType)}
      /\ \A k, h \in DOMAIN ret[b].recipes :
           ret[b].recipes[k] = ret[b].recipes[h] => k = h

\* A bucket of two records of one recipe, one of them a deletion: one file,
\* one recipe name, both savings.
C11_Witness ==
  /\ call = "aggregateByChangeType"
  /\ Len(sourceResults) = 2
  /\ Len(ret) = 1
  /\ \E j \in DOMAIN sourceResults : sourceResults[j].sourcePathAfter = Null
  /\ ret[1].filesAffected = 1
  /\ Len(ret[1].recipes) = 1
  /\ GtZero(ret[1].timeSaved)

RecipeNames == {recipeStats[i].recipe : i \in DOMAIN recipeStats}

\* C12: buildRecipeHierarchy returns exactly one node per distinct recipe
\* name of the recipe-run records; every node has parent = null, children =
\* [] and depth = 0, and its metrics are the enrichment of a record of its
\* name.
C12_OneRootPerRecipe ==
  call = "buildRecipeHierarchy" =>
    /\ {ret[k].name : k \in DOMAIN ret} = RecipeNames
    /\ Len(ret) = Cardinality(RecipeNames)
    /\ \A k \in DOMAIN ret :
         /\ ret[k].parent = Null
         /\ ret[k].children = <<>>
         /\ ret[k].depth = 0
         /\ \E i \in DOMAIN recipeStats :
              /\ recipeStats[i].recipe = ret[k].name
              /\ ret[k].metrics.recipe = ret[k].name
              /\ \A f \in DOMAIN recipeStats[i] : ret[k].metrics[f] = recipeStats[i][f]
              /\ ret[k].metrics.totalExecutionTimeMs = ExecutionMsOf[i]
              /\ ret[k].metrics.totalTimeSaved =
                   SetSum({j \in DOMAIN sourceResults :
                             sourceResults[j].recipeChanges = ret[k].name}, SavingOf)

\* Two different records of one recipe name gave a single root node.
C12_Witness ==
  /\ call = "buildRecipeHierarchy"
  /\ Len(recipeStats) = 2
  /\ recipeStats[1] # recipeStats[2]
  /\ recipeStats[1].recipe = recipeStats[2].recipe
  /\ Len(ret) = 1
  /\ ret[1].depth = 0

\* a <= b on finite numbers
AtMost(a, b) == a.n * b.d <= b.n * a.d

\* C13: the cumulativeTimeSaved values calculateTimeSeries returns never
\* decrease along the output sequence, for every sequence of file-change
\* records the loader produces.
C13_Monotone ==
  call = "calculateTimeSeries" =>
    \A k \in 1..(Len(ret) - 1) :
      AtMost(ret[k].cumulativeTimeSaved, ret[k + 1].cumulativeTimeSaved)

StatFields == {"mean", "median", "min", "max", "stdDev", "percentile95"}

Numeral(k) == IF k < 0 THEN <<"-">> \o DigitsOf(-k) ELSE DigitsOf(k)

\* C15: formatDuration(s) is "{round(s)}s" when s < 60,
\* "{floor(s/60)}min {round(s%60)}s" when 60 <= s < 3600 and
\* "{floor(s/3600)}h {floor((s%3600)/60)}min" when s >= 3600; 45 gives "45s",
\* 125 gives "2min 5s" and 3725 gives "1h 2min".  For the finite s = n/d the
\* rounding and the floors are stated on the integers n and d.
C15_ThreeTiers ==
  call = "formatDuration" =>
    LET n == seconds.n
        d == seconds.d
    IN /\ (d > 0 /\ n < 60 * d) =>
            ret = Numeral((2 * n + d) \div (2 * d)) \o <<"s">>
       /\ (d > 0 /\ n >= 60 * d /\ n < 3600 * d) =>
            LET m == n \div (60 * d)
            IN ret = Numeral(m) \o <<"m","i","n"," ">>
                       \o Numeral((2 * (n - 60 * m * d) + d) \div (2 * d))
                       \o <<"s">>
       /\ (d > 0 /\ n >= 3600 * d) =>
            LET h == n \div (3600 * d)
            IN ret = Numeral(h) \o <<"h"," ">>
                       \o Numeral((n - 3600 * h * d) \div (60 * d))
                       \o <<"m","i","n">>
       /\ seconds = NegInfinity => ret = <<"-","I","n","f","i","n","i","t","y","s">>
       /\ seconds = Infinity =>
            ret = <<"I","n","f","i","n","i","t","y","h"," ","N","a","N","m","i","n">>
       /\ seconds = Num(45) => ret = <<"4","5","s">>
       /\ seconds = Num(125) => ret = <<"2","m","i","n"," ","5","s">>
       /\ seconds = Num(3725) => ret = <<"1","h"," ","2","m","i","n">>

\* 59.5 seconds are formatted "60s": the seconds are rounded, not floored
C15_Witness ==
  /\ call = "formatDuration"
  /\ seconds = Frac(119, 2)
  /\ ret = <<"6","0","s">>

\* The factor of each unit, as a product of integers: 1, 1e6, 1e9, 6e10
\* and 3.6e12 nanoseconds
FactorOf(unit) ==
  CASE unit = "ns" -> <<1>>
    [] unit = "ms" -> <<1000000>>
    [] unit = "s" -> <<1000, 1000000>>
    [] unit = "min" -> <<60000, 1000000>>
    [] unit = "h" -> <<3600000, 1000000>>

RECURSIVE MultiplyBy(_, _)
MultiplyBy(x, factors) ==
  IF factors = <<>> THEN x
  ELSE MultiplyBy(Times(x, Num(Head(factors))), Tail(factors))

\* C16: convertTimeUnit(n, u) is n divided by the factor of u (ns 1, ms 1e6,
\* s 1e9, min 6e10, h 3.6e12): the result times the factor is n, and the
\* milliseconds times 1e6 are the nanoseconds again.
C16_FactorTable ==
  call = "convertTimeUnit" =>
    /\ IsFiniteNum(nanoseconds) =>
         /\ IsFiniteNum(ret)
         /\ targetUnit = "min" => ret.n * 600 = (nanoseconds.n \div 100000000) * ret.d
    /\ MultiplyBy(ret, FactorOf(targetUnit)) = nanoseconds
    /\ targetUnit = "ms" => Times(ret, Num(1000000)) = nanoseconds

\* 1.2e9 ns are 1200 ms, and 1200 * 1e6 is 1.2e9 again
C16_Witness ==
  /\ call = "convertTimeUnit"
  /\ targetUnit = "ms"
  /\ nanoseconds = Num(1200000000)
  /\ ret = Num(1200)
  /\ Times(ret, Num(1000000)) = nanoseconds

\* C18: no derivation function of DataProcessor modifies its inputs: in every
\* step the recipe-run records, the file-change records and the array of
\* values are, element by element and field by field, what they were before.
C18_InputsUnchanged ==
  [][/\ recipeStats' = recipeStats
     /\ sourceResults' = sourceResults
     /\ values' = values]_vars

\* The statistics of the unsorted [5, -2] are returned and the array is
\* still [5, -2]
C18_Witness ==
  /\ call = "calculateDistributionStats"
  /\ values = <<Num(5), Num(-2)>>
  /\ ret.min = Num(-2)
  /\ ret.max = Num(5)

\* Load i returned the array that the earlier load j of the same method and
\* file had fetched
MemoizedFrom(i, j) ==
  /\ j \in 1..(i - 1)
  /\ loads[j].method = loads[i].method
  /\ loads[j].filePath = loads[i].filePath
  /\ loads[j].state = "fulfilled"
  /\ loads[i].result = loads[j].result

\* C19: once a load of a method and file has completed successfully, every
\* later load of the same method and file, until clearCache, is answered
\* from the cache with the array that such a load fetched, without a fetch;
\* and the cache keeps, for every method and file fetched since clearCache,
\* an array fetched by a load of that method and file.
C19_Memoized ==
  /\ \A i \in DOMAIN loads :
       /\ loads[i].memoized => loads[i].state = "cached"
       /\ loads[i].state = "cached" => MemoizedFrom(i, loads[i].from)
  /\ \A pair \in loadedSinceClear :
       \E key \in DOMAIN cache :
         /\ loads[cachedBy[key]].method = pair[1]
         /\ loads[cachedBy[key]].filePath = pair[2]
         /\ loads[cachedBy[key]].state = "fulfilled"
         /\ cache[key] = loads[cachedBy[key]].result

\* A second load of the same file is answered with the record the first
\* load fetched
C19_Witness ==
  /\ Len(loads) = 2
  /\ loads[1].state = "fulfilled"
  /\ loads[2].memoized
  /\ loads[2].state = "cached"
  /\ loads[2].method = loads[1].method
  /\ loads[2].filePath = loads[1].filePath
  /\ Len(loads[2].result) = 1
  /\ loads[2].result = loads[1].result

\* C20: in every interleaving of loads and clearCache calls, the first load
\* of a method and file since clearCache is not answered from the cache: it
\* fetches, and returns nothing fetched earlier.
C20_FreshAfterClear ==
  \A i \in DOMAIN loads : loads[i].first => loads[i].state # "cached"

\* The name a loaded record carries: recipe, recipeChanges, or for a usage
\* entry recipeId
LoadedName(record) ==
  IF "recipe" \in DOMAIN record THEN record.recipe
  ELSE IF "recipeChanges" \in DOMAIN record THEN record.recipeChanges
  ELSE record.recipeId

\* The arrays of recipe-run and of file-change records in the cache
RecordArrays ==
  {cache[key] : key \in {k \in DOMAIN cache : cachedBy[k] \in DOMAIN loads
                                               /\ loads[cachedBy[k]].method # "loadUsageReport"}}

\* The string has a character that trimming keeps
HasVisibleChar(str) ==
  \E k \in DOMAIN str : str[k] \notin {" ", "\t", "\n", "\r"}

\* C21: every record returned by loadRecipeRunStats or loadSourceFileResults,
\* and every record of every array in the cache, has a name that is not
\* empty after trimming; rows with an empty or missing name are dropped.
C21_NamedRecords ==
  /\ \A i \in DOMAIN loads :
       (loads[i].state \in {"fulfilled", "cached"} /\ loads[i].method # "loadUsageReport") =>
         \A k \in DOMAIN loads[i].result : HasVisibleChar(LoadedName(loads[i].result[k]))
  /\ \A array \in RecordArrays :
       \A k \in DOMAIN array : HasVisibleChar(LoadedName(array[k]))

\* A file of a description row, one named row, a blank and a quoted-blank
\* name was loaded: one record is returned and cached
C21_Witness ==
  \E i \in DOMAIN loads :
    /\ loads[i].method = "loadRecipeRunStats"
    /\ loads[i].state = "fulfilled"
    /\ Len(loads[i].result) = 1
    /\ loads[i].result[1].recipe = Name_ToolsBar
    /\ cache[Str_recipe_stats_ \o loads[i].filePath] = loads[i].result

\* The count and timing fields of a loaded record
NumericFields(record) ==
  IF "recipe" \in DOMAIN record
    THEN {"sourceFileCount", "sourceFileChangedCount", "cumulativeScanningTime",
          "percentile99ScanningTime", "maxScanningTime", "cumulativeEditTime",
          "percentile99EditTime", "maxEditTime"}
  ELSE IF "recipeChanges" \in DOMAIN record
    THEN {"estimatedTimeSaving", "cycle"}
  ELSE {"timeSavingsInMinutes"}

\* C22: in every record a load returns, each count and timing field is a
\* number that is not negative.
C22_NonNegative ==
  \A i \in DOMAIN loads :
    loads[i].state \in {"fulfilled", "cached"} =>
      \A k \in DOMAIN loads[i].result :
        \A f \in NumericFields(loads[i].result[k]) :
          /\ ~IsNaN(loads[i].result[k][f])
          /\ loads[i].result[k][f].n >= 0

\* The cycle values present in the file-change records
CyclesPresent == {sourceResults[j].cycle : j \in DOMAIN sourceResults}

\* The records of the cycles up to c, and those of cycle c
UpToCycle(c) == {j \in DOMAIN sourceResults : AtMost(sourceResults[j].cycle, c)}
InCycle(c) == {j \in DOMAIN sourceResults : sourceResults[j].cycle = c}

\* C24: calculateTimeSeries returns one entry per distinct cycle of the
\* file-change records, in strictly ascending cycle order; each entry's
\* cumulativeTimeSaved is the sum of estimatedTimeSaving over the records of
\* that cycle and of all smaller cycles, and its filesChanged is the number
\* of distinct non-null sourcePathAfter values of that cycle alone.
C24_TimeSeries ==
  call = "calculateTimeSeries" =>
    /\ Len(ret) = Cardinality(CyclesPresent)
    /\ {ret[k].cycle : k \in DOMAIN ret} = CyclesPresent
    /\ \A k \in 1..(Len(ret) - 1) :
         ret[k].cycle.n * ret[k + 1].cycle.d < ret[k + 1].cycle.n * ret[k].cycle.d
    /\ \A k \in DOMAIN ret :
         /\ ret[k].cumulativeTimeSaved = SetSum(UpToCycle(ret[k].cycle), SavingOf)
         /\ ret[k].filesChanged =
              Cardinality({sourceResults[j].sourcePathAfter : j \in InCycle(ret[k].cycle)}
                          \ {Null})

\* Records of cycle 2 then cycle 1: two entries, cycle 1 first, the second
\* carrying the total of both
C24_Witness ==
  /\ call = "calculateTimeSeries"
  /\ Len(sourceResults) = 2
  /\ sourceResults[1].cycle = Num(2)
  /\ sourceResults[2].cycle = Num(1)
  /\ Len(ret) = 2
  /\ ret[1].cycle = Num(1)
  /\ ret[2].cumulativeTimeSaved =
       Plus(sourceResults[1].estimatedTimeSaving, sourceResults[2].estimatedTimeSaving)

\* The element at the 0-based index k of the ascending order of values: the
\* value with at most k values below it and more than k values not above it
Ranked(k) ==
  CHOOSE v \in {values[i] : i \in DOMAIN values} :
    /\ Cardinality({i \in DOMAIN values : ~AtMost(v, values[i])}) <= k
    /\ Cardinality({i \in DOMAIN values : AtMost(values[i], v)}) > k

\* The squared deviations from the returned mean
SquaredDeviations ==
  [i \in DOMAIN values |->
     Times(Minus(values[i], ret.mean), Minus(values[i], ret.mean))]

PopulationVariance ==
  Over(SetSum(DOMAIN values, SquaredDeviations), Num(Len(values)))

\* stdDev is the root of the population variance
RootOfPopulationVariance ==
  IF "sqrt" \in DOMAIN ret.stdDev THEN ret.stdDev.sqrt = PopulationVariance
  ELSE IF IsNaN(PopulationVariance) THEN IsNaN(ret.stdDev)
  ELSE ret.stdDev.n >= 0 /\ Times(ret.stdDev, ret.stdDev) = PopulationVariance

\* The statistics of the N values as the claim states them
StatisticsOfSorted(N) ==
  /\ ret.median = IF N % 2 = 1 THEN Ranked((N - 1) \div 2)
                  ELSE Times(Plus(Ranked(N \div 2 - 1), Ranked(N \div 2)), Frac(1, 2))
  /\ (95 * N) \div 100 \in 0..(N - 1)
  /\ ret.percentile95 = Ranked((95 * N) \div 100)
  /\ ret.min = Ranked(0)
  /\ ret.max = Ranked(N - 1)
  /\ RootOfPopulationVariance

\* C25 as stated: for every non-empty input of N values
\* calculateDistributionStats returns the median, percentile95, min and max
\* of the ascending order and the root of the variance that divides by N.
C25_Original ==
  (call = "calculateDistributionStats" /\ values # <<>>) =>
    StatisticsOfSorted(Len(values))

\* C25: for a non-empty input of N values none of which is NaN, the median
\* is the middle element of the ascending order for odd N and the average
\* of the two middle elements for even N, percentile95 is the element at
\* index floor(0.95 * N), an index within 0..N-1, min and max are the first
\* and last element, and the variance divides by N.
C25_Statistics ==
  (/\ call = "calculateDistributionStats"
   /\ values # <<>>
   /\ \A i \in DOMAIN values : ~IsNaN(values[i])) =>
    StatisticsOfSorted(Len(values))

\* The statistics of [5, -2, 1]: median 1, min -2, max 5, percentile95 5
\* (index 2), a variance of 74/9
C25_Witness ==
  /\ call = "calculateDistributionStats"
  /\ values = <<Num(5), Num(-2), Num(1)>>
  /\ ret.median = Num(1)
  /\ ret.min = Num(-2)
  /\ ret.percentile95 = Num(5)
  /\ ret.stdDev = [sqrt |-> Frac(74, 9)]

\* The timeSaved of the returned buckets
BucketSavings == [b \in DOMAIN ret |-> ret[b].timeSaved]

NamesFile(message, filePath) ==
  \E k \in 0..Len(message) :
    /\ k + Len(filePath) <= Len(message)
    /\ k >= 7
    /\ SubSeq(message, k - 6, k) = <<"d","e","p","u","i","s"," ">>
    /\ SubSeq(message, k + 1, k + Len(filePath)) = filePath

\* C27: a step in which a load fails leaves the cache as it was and rejects
\* with a message naming the file path; no load is ever answered from the
\* cache unless a fetch for its method and file was stored since clearCache,
\* so a load after a failure fetches again, and what the cache answers is
\* the result of a fulfilled load.
C27_FailedLoad ==
  [][/\ \A i \in DOMAIN loads :
          (loads[i].state = "fetching" /\ loads'[i].state = "rejected") =>
            /\ cache' = cache
            /\ NamesFile(loads'[i].result, loads[i].filePath)
     /\ \A i \in DOMAIN loads' :
          /\ ~loads'[i].memoized => loads'[i].state # "cached"
          /\ loads'[i].state = "cached" =>
               loads'[loads'[i].from].state = "fulfilled"]_vars

\* A load failed with the cache holding another entry, which is kept, and
\* the failed file is not in the cache
C27_Witness ==
  /\ Len(loads) = 2
  /\ \E i, j \in DOMAIN loads :
       /\ loads[i].state = "rejected"
       /\ loads[j].state = "fulfilled"
       /\ DOMAIN cache = {cacheKey(loads[j].method, loads[j].filePath)}
  /\ call = "failed"


\* Operation k was awaiting loadAllData and has failed in this step
FailsNow(k) ==
  /\ app.ops[k].state = "loading"
  /\ app'.ops[k].state = "failed"

\* A load of operation k was rejected in this step
RejectedNow(k) ==
  \E j \in 1..3 : /\ loads[app.ops[k].loads[j]].state = "fetching"
                  /\ loads'[app.ops[k].loads[j]].state = "rejected"

\* C23: when one of the loads started by loadAllData fails, the operation
\* awaiting it fails in the same step; in that step App.data keeps its
\* values (no record set of the attempt is stored, roiMetrics and
\* enrichedStats are not recomputed), a toast of type error that includes the
\* load's error message is added, and no fetch is started; fetches are
\* started by initialize and refreshData only.
C23_FailedLoadAll ==
  [][/\ \A k \in DOMAIN app.ops :
          /\ (app.ops[k].state = "loading" /\ RejectedNow(k)) => FailsNow(k)
          /\ FailsNow(k) =>
               /\ RejectedNow(k)
               /\ app'.data = app.data
               /\ loads' = [i \in DOMAIN loads |->
                              IF loads[i].state = "fetching" /\ loads'[i].state = "rejected"
                                THEN loads'[i] ELSE loads[i]]
               /\ Len(app'.toasts) = Len(app.toasts) + 1
               /\ app'.toasts[Len(app'.toasts)].type = "error"
               /\ \E j \in 1..3 :
                    /\ loads'[app.ops[k].loads[j]].state = "rejected"
                    /\ Includes(app'.toasts[Len(app'.toasts)].message,
                                loads'[app.ops[k].loads[j]].result)
     /\ (Len(loads') > Len(loads) => call' \in {"initialize", "refreshData"})
    ]_vars

\* An operation has failed after its recipe records had been fetched, and
\* the App still has no recipe record.
C23_Witness ==
  \E k \in DOMAIN app.ops :
    /\ app.ops[k].state = "failed"
    /\ loads[app.ops[k].loads[1]].state = "fulfilled"
    /\ loads[app.ops[k].loads[1]].result # <<>>
    /\ loads[app.ops[k].loads[2]].state = "rejected"
    /\ app.data.recipeStats = <<>>
    /\ app.toasts # <<>>


\* The operation started last, and the key of the recipe records
LastOp == app.ops[Len(app.ops)]

Key_DefaultRecipeStats == cacheKey("loadRecipeRunStats", Path_RecipeRunStats)

\* C28: once every operation has completed and every fetch has resolved,
\* App.data.recipeStats and the cache entry of the recipe records are the
\* records returned by the fetch of the operation that was started last.
C28_LastStartedWins ==
  (/\ Len(app.ops) >= 2
   /\ \A k \in DOMAIN app.ops : app.ops[k].state = "done"
   /\ \A i \in DOMAIN loads : loads[i].state = "fulfilled")
  => /\ app.data.recipeStats = loads[LastOp.loads[1]].result
     /\ cache[Key_DefaultRecipeStats] = loads[LastOp.loads[1]].result

\* C29: App.data.enrichedStats has the records of App.data.recipeStats, in
\* the same order.
C29_OrderKept ==
  /\ Len(app.data.enrichedStats) = Len(app.data.recipeStats)
  /\ \A i \in DOMAIN app.data.recipeStats :
       app.data.enrichedStats[i].recipe = app.data.recipeStats[i].recipe

\* C30: the loading indicator is visible exactly while an operation that
\* showed it is in progress.
C30_IndicatorTracksOperations ==
  app.loadingVisible <=> (\E k \in DOMAIN app.ops : app.ops[k].state = "loading")

====
